---- MODULE Spec2Model ----
(***************************************************************************)
(* CommWatch: transport handles (UART, SPI, CAN, I2C, TCP), the protocol    *)
(* decoders and the session pipeline (CommWatchBackend), as state machines. *)
(*                                                                         *)
(* JavaScript runs one task at a time: every action below is one macrotask *)
(* (an IPC call, a timer callback, an I/O callback) together with the      *)
(* microtasks (promise continuations) it triggers, which run before any    *)
(* other macrotask.                                                        *)
(***************************************************************************)
EXTENDS Integers, Sequences, FiniteSets, TLC

(***************************************************************************)
(* Bounds of the model.                                                    *)
(***************************************************************************)
MaxHandles == 2
MaxFrames == 2
MaxTicks == 1
MaxCalls == 3
MaxSubs == 2
MaxPayload == 2
MaxRawLen == 3
LongPayloadLen == 258
MaxBusOps == 5
MaxConnections == 2
MaxCanTicks == 13
MaxBurstTicks == 2

(* null for strings and for records *)
None == "none"
Null == [null |-> TRUE]

(***************************************************************************)
(* 32-bit style bitwise operators on naturals.                             *)
(***************************************************************************)
RECURSIVE BitXor(_, _)
BitXor(a, b) ==
  IF a = 0 THEN b
  ELSE IF b = 0 THEN a
  ELSE (((a % 2) + (b % 2)) % 2) + 2 * BitXor(a \div 2, b \div 2)

RECURSIVE BitAnd(_, _)
BitAnd(a, b) ==
  IF a = 0 \/ b = 0 THEN 0
  ELSE ((a % 2) * (b % 2)) + 2 * BitAnd(a \div 2, b \div 2)

RECURSIVE BitOr(_, _)
BitOr(a, b) ==
  IF a = 0 THEN b
  ELSE IF b = 0 THEN a
  ELSE (IF a % 2 = 1 \/ b % 2 = 1 THEN 1 ELSE 0) + 2 * BitOr(a \div 2, b \div 2)

Shl(a, n) == a * (2 ^ n)
Shr(a, n) == a \div (2 ^ n)

(* raw.slice(from, to): bytes at 0-based offsets from .. to-1 *)
Slice(raw, from, to) ==
  IF to <= from THEN << >>
  ELSE SubSeq(raw, from + 1, IF to > Len(raw) THEN Len(raw) ELSE to)

(* raw[i] with a 0-based offset *)
At(raw, i) == raw[i + 1]

(***************************************************************************)
(* CRCCalculator                                                           *)
(***************************************************************************)
RECURSIVE Crc16TableStep(_, _)
Crc16TableStep(crc, j) ==
  IF j = 0 THEN crc
  ELSE LET next == IF BitAnd(crc, 32768) /= 0
                     THEN BitXor(Shl(crc, 1), 4129)
                     ELSE Shl(crc, 1)
       IN  IF next >= 0 THEN Crc16TableStep(next, j - 1) ELSE crc

CRC16_CCITT_FALSE_TABLE ==
  [i \in 0..255 |-> BitAnd(Crc16TableStep(Shl(i, 8), 8), 65535)]

(* one iteration of the loop of crc16CcittFalse *)
Crc16Step(crc, byte) ==
  LET index == BitAnd(BitXor(Shr(crc, 8), byte), 255)
  IN  BitAnd(BitXor(Shl(crc, 8), CRC16_CCITT_FALSE_TABLE[index]), 65535)

(* the iterations for data[lo .. hi], in order (the left half, then the    *)
(* right half)                                                             *)
RECURSIVE Crc16Range(_, _, _, _)
Crc16Range(data, lo, hi, crc) ==
  IF lo > hi THEN crc
  ELSE IF lo = hi THEN Crc16Step(crc, data[lo])
  ELSE LET mid == (lo + hi) \div 2
           left == Crc16Range(data, lo, mid, crc)
       IN  IF left >= 0 THEN Crc16Range(data, mid + 1, hi, left) ELSE left

Crc16Loop(data, k, crc) == Crc16Range(data, k, Len(data), crc)

crc16CcittFalse(data) == Crc16Loop(data, 1, 65535)

(* crc32 works on a 32-bit register: it is kept here as its two 16-bit    *)
(* halves [hi, lo], the value being hi * 2^16 + lo.                        *)
(* One pass of the inner loop: crc = (crc >>> 1) ^ (0xEDB88320 & -(crc & 1)) *)
Crc32Bit(crc) ==
  LET shifted == [hi |-> Shr(crc.hi, 1), lo |-> Shr(crc.lo, 1) + 32768 * (crc.hi % 2)]
  IN  IF crc.lo % 2 = 1
        THEN [hi |-> BitXor(shifted.hi, 60856), lo |-> BitXor(shifted.lo, 33568)]
        ELSE shifted

RECURSIVE Crc32Bits(_, _)
Crc32Bits(crc, j) ==
  IF j = 0 THEN crc
  ELSE LET next == Crc32Bit(crc)
       IN  IF next.lo >= 0 THEN Crc32Bits(next, j - 1) ELSE crc

(* one pass of the outer loop: crc ^= byte, then the eight inner passes *)
Crc32Step(crc, byte) == Crc32Bits([hi |-> crc.hi, lo |-> BitXor(crc.lo, byte)], 8)

RECURSIVE Crc32Range(_, _, _, _)
Crc32Range(data, lo, hi, crc) ==
  IF lo > hi THEN crc
  ELSE IF lo = hi THEN Crc32Step(crc, data[lo])
  ELSE LET mid == (lo + hi) \div 2
           left == Crc32Range(data, lo, mid, crc)
       IN  IF left.lo >= 0 THEN Crc32Range(data, mid + 1, hi, left) ELSE left

(* variant: the register is returned without the final XOR *)
crc32NoFinalXor(data) ==
  Crc32Range(data, 1, Len(data), [hi |-> 65535, lo |-> 65535])

(* (crc ^ 0xFFFFFFFF) >>> 0 *)
crc32(data) ==
  LET crc == Crc32Range(data, 1, Len(data), [hi |-> 65535, lo |-> 65535])
  IN  [hi |-> BitXor(crc.hi, 65535), lo |-> BitXor(crc.lo, 65535)]

(***************************************************************************)
(* EFuseDecoder                                                            *)
(***************************************************************************)
START_MARKER == 170
END_MARKER == 187
MIN_FRAME_LENGTH == 7

decodeAdcPayload(payload) ==
  IF Len(payload) < 2 THEN << >>
  ELSE LET rawValue == BitOr(Shl(payload[1], 8), payload[2])
       IN  << [name |-> "adc_raw", value |-> rawValue],
              \* (rawValue / 4095.0) * 3.3 shown with 3 decimals: in millivolts
              [name |-> "voltage", value |-> (rawValue * 3300 * 2 + 4095) \div (2 * 4095)] >>

decodeStatusPayload(payload) ==
  IF Len(payload) < 1 THEN << >>
  ELSE LET status == payload[1]
       IN  << [name |-> "status", value |-> status],
              [name |-> "ready", value |-> IF BitAnd(status, 1) /= 0 THEN 1 ELSE 0],
              [name |-> "error", value |-> IF BitAnd(status, 2) /= 0 THEN 1 ELSE 0] >>

(* (p0 << 24) | ... is a signed 32-bit value in JavaScript *)
decodeConfigPayload(payload) ==
  IF Len(payload) < 4 THEN << >>
  ELSE LET u == Shl((payload[1] % 128), 24) + Shl(payload[2], 16)
                  + Shl(payload[3], 8) + payload[4]
       IN  << [name |-> "config_value",
               value |-> IF payload[1] >= 128 THEN u - 2147483647 - 1 ELSE u] >>

decodePayload(type, payload) ==
  CASE type = 1 -> decodeAdcPayload(payload)
    [] type = 2 -> decodeStatusPayload(payload)
    [] type = 3 -> decodeConfigPayload(payload)
    [] OTHER -> << >>

(* variant: the end marker is not looked at *)
EFuseDecodeNoEndMarker(raw) ==
  IF Len(raw) < MIN_FRAME_LENGTH THEN Null
  ELSE IF At(raw, 0) /= START_MARKER THEN Null
  ELSE LET type == At(raw, 1)
           payloadLength == BitOr(Shl(At(raw, 2), 8), At(raw, 3))
           expectedLength == 1 + 1 + 2 + payloadLength + 2 + 1
       IN  IF Len(raw) /= expectedLength THEN Null
           ELSE LET payloadEnd == 4 + payloadLength
                    payload == Slice(raw, 4, payloadEnd)
                    crcExpected == BitOr(Shl(At(raw, payloadEnd), 8), At(raw, payloadEnd + 1))
                    crcCalculated == crc16CcittFalse(Slice(raw, 1, payloadEnd))
                IN  [protocol |-> "efuse",
                     type |-> type,
                     length |-> payloadLength,
                     payload |-> payload,
                     extra |-> decodePayload(type, payload),
                     checksum |-> [expected |-> crcExpected,
                                   calculated |-> crcCalculated,
                                   valid |-> crcExpected = crcCalculated]]

(* variant: a frame with a wrong CRC is not decoded *)
EFuseDecodeStrictCrc(raw) ==
  IF Len(raw) < MIN_FRAME_LENGTH THEN Null
  ELSE IF At(raw, 0) /= START_MARKER \/ At(raw, Len(raw) - 1) /= END_MARKER THEN Null
  ELSE LET type == At(raw, 1)
           payloadLength == BitOr(Shl(At(raw, 2), 8), At(raw, 3))
           expectedLength == 1 + 1 + 2 + payloadLength + 2 + 1
       IN  IF Len(raw) /= expectedLength THEN Null
           ELSE LET payloadEnd == 4 + payloadLength
                    payload == Slice(raw, 4, payloadEnd)
                    crcExpected == BitOr(Shl(At(raw, payloadEnd), 8), At(raw, payloadEnd + 1))
                    crcCalculated == crc16CcittFalse(Slice(raw, 1, payloadEnd))
                IN  IF crcExpected /= crcCalculated THEN Null
                    ELSE [protocol |-> "efuse",
                          type |-> type,
                          length |-> payloadLength,
                          payload |-> payload,
                          extra |-> decodePayload(type, payload),
                          checksum |-> [expected |-> crcExpected,
                                        calculated |-> crcCalculated,
                                        valid |-> TRUE]]

EFuseDecode(raw) ==
  IF Len(raw) < MIN_FRAME_LENGTH THEN Null
  ELSE IF At(raw, 0) /= START_MARKER \/ At(raw, Len(raw) - 1) /= END_MARKER THEN Null
  ELSE LET type == At(raw, 1)
           payloadLength == BitOr(Shl(At(raw, 2), 8), At(raw, 3))
           expectedLength == 1 + 1 + 2 + payloadLength + 2 + 1
       IN  IF Len(raw) /= expectedLength THEN Null
           ELSE LET payloadEnd == 4 + payloadLength
                    payload == Slice(raw, 4, payloadEnd)
                    crcExpected == BitOr(Shl(At(raw, payloadEnd), 8), At(raw, payloadEnd + 1))
                    crcCalculated == crc16CcittFalse(Slice(raw, 1, payloadEnd))
                IN  [protocol |-> "efuse",
                     type |-> type,
                     length |-> payloadLength,
                     payload |-> payload,
                     extra |-> decodePayload(type, payload),
                     checksum |-> [expected |-> crcExpected,
                                   calculated |-> crcCalculated,
                                   valid |-> crcExpected = crcCalculated]]

(* variant: the end marker is checked before the start marker *)
EFuseValidateEndFirst(raw) ==
  IF Len(raw) < MIN_FRAME_LENGTH THEN "FRAME_TOO_SHORT"
  ELSE IF At(raw, Len(raw) - 1) /= END_MARKER THEN "INVALID_END_MARKER"
  ELSE IF At(raw, 0) /= START_MARKER THEN "INVALID_START_MARKER"
  ELSE LET payloadLength == BitOr(Shl(At(raw, 2), 8), At(raw, 3))
           expectedLength == 1 + 1 + 2 + payloadLength + 2 + 1
       IN  IF Len(raw) /= expectedLength THEN "LENGTH_MISMATCH"
           ELSE LET payloadEnd == 4 + payloadLength
                    crcExpected == BitOr(Shl(At(raw, payloadEnd), 8), At(raw, payloadEnd + 1))
                    crcCalculated == crc16CcittFalse(Slice(raw, 1, payloadEnd))
                IN  IF crcExpected /= crcCalculated THEN "CRC_MISMATCH" ELSE None

EFuseValidate(raw) ==
  IF Len(raw) < MIN_FRAME_LENGTH THEN "FRAME_TOO_SHORT"
  ELSE IF At(raw, 0) /= START_MARKER THEN "INVALID_START_MARKER"
  ELSE IF At(raw, Len(raw) - 1) /= END_MARKER THEN "INVALID_END_MARKER"
  ELSE LET payloadLength == BitOr(Shl(At(raw, 2), 8), At(raw, 3))
           expectedLength == 1 + 1 + 2 + payloadLength + 2 + 1
       IN  IF Len(raw) /= expectedLength THEN "LENGTH_MISMATCH"
           ELSE LET payloadEnd == 4 + payloadLength
                    crcExpected == BitOr(Shl(At(raw, payloadEnd), 8), At(raw, payloadEnd + 1))
                    crcCalculated == crc16CcittFalse(Slice(raw, 1, payloadEnd))
                IN  IF crcExpected /= crcCalculated THEN "CRC_MISMATCH" ELSE None

(* frame[k] = v on a Uint8Array keeps the low 8 bits of v *)
U8(v) == v % 256

(* variant: the high byte of the payload length is not written *)
EFuseEncodeShortLength(type, payload) ==
  LET payloadLength == Len(payload)
      head == << U8(type), 0, U8(BitAnd(payloadLength, 255)) >> \o payload
      crc == crc16CcittFalse(head)
  IN  << START_MARKER >> \o head
        \o << U8(BitAnd(Shr(crc, 8), 255)), U8(BitAnd(crc, 255)), END_MARKER >>

EFuseEncode(type, payload) ==
  LET payloadLength == Len(payload)
      head == << U8(type), U8(BitAnd(Shr(payloadLength, 8), 255)),
                 U8(BitAnd(payloadLength, 255)) >> \o payload
      crc == crc16CcittFalse(head)
  IN  << START_MARKER >> \o head
        \o << U8(BitAnd(Shr(crc, 8), 255)), U8(BitAnd(crc, 255)), END_MARKER >>

(***************************************************************************)
(* COBSDecoder                                                             *)
(***************************************************************************)
COBS_MAX_CODE == 255

(* the inner for loop of cobsDecode: it runs while j < code and           *)
(* i < data.length and moves i and j together, so it copies                *)
(* min(code - j, data.length - i) bytes                                    *)
CobsCopy(data, i, j, code, result) ==
  LET room == IF code - j < Len(data) - i THEN code - j ELSE Len(data) - i
      n == IF room > 0 THEN room ELSE 0
  IN  [i |-> i + n, result |-> result \o SubSeq(data, i + 1, i + n)]

(* the while loop of cobsDecode; i is the 0-based read position. The      *)
(* Uint8Array returned is [bytes |-> ...], null is Null.                   *)
RECURSIVE CobsDecodeLoop(_, _, _)
CobsDecodeLoop(data, i, result) ==
  IF i >= Len(data) THEN [bytes |-> result]
  ELSE LET code == At(data, i)
       IN  IF code = 0 THEN Null
           ELSE LET c == CobsCopy(data, i + 1, 1, code, result)
                    next == IF code < COBS_MAX_CODE /\ c.i < Len(data)
                              THEN Append(c.result, 0) ELSE c.result
                IN  IF Len(next) >= 0 THEN CobsDecodeLoop(data, c.i, next) ELSE Null

cobsDecode(data) == CobsDecodeLoop(data, 0, << >>)

(* variant: after a zero byte the code goes on counting *)
CobsEncodeStepKeepsCount(st, byte) ==
  IF byte = 0
    THEN LET closed == [st.result EXCEPT ![st.codeIndex + 1] = st.code]
         IN  [result |-> Append(closed, 0), codeIndex |-> Len(closed),
              code |-> st.code]
    ELSE [result |-> Append(st.result, byte), codeIndex |-> st.codeIndex,
          code |-> st.code + 1]

(* one pass of the for loop of cobsEncode; st is [result, codeIndex, code] *)
(* with codeIndex the 0-based position of the pending code byte            *)
CobsEncodeStep(st, byte) ==
  IF byte = 0
    THEN LET closed == [st.result EXCEPT ![st.codeIndex + 1] = st.code]
         IN  [result |-> Append(closed, 0), codeIndex |-> Len(closed), code |-> 1]
    ELSE LET pushed == Append(st.result, byte)
             code == st.code + 1
         IN  IF code = COBS_MAX_CODE
               THEN LET closed == [pushed EXCEPT ![st.codeIndex + 1] = code]
                    IN  [result |-> Append(closed, 0), codeIndex |-> Len(closed),
                         code |-> 1]
               ELSE [result |-> pushed, codeIndex |-> st.codeIndex, code |-> code]

(* the for loop of cobsEncode over data[lo..hi], in order (split in two so *)
(* that long inputs do not nest the evaluation)                            *)
RECURSIVE CobsEncodeRange(_, _, _, _)
CobsEncodeRange(data, lo, hi, st) ==
  IF lo > hi THEN st
  ELSE IF lo = hi THEN CobsEncodeStep(st, data[lo])
  ELSE LET mid == (lo + hi) \div 2
           left == CobsEncodeRange(data, lo, mid, st)
       IN  IF left.code >= 0 THEN CobsEncodeRange(data, mid + 1, hi, left) ELSE left

(* variant: the code byte of the last block is left at its placeholder *)
cobsEncodeOpenLastBlock(data) ==
  CobsEncodeRange(data, 1, Len(data),
                  [result |-> << 0 >>, codeIndex |-> 0, code |-> 1]).result

cobsEncode(data) ==
  LET st == CobsEncodeRange(data, 1, Len(data),
                            [result |-> << 0 >>, codeIndex |-> 0, code |-> 1])
  IN  [st.result EXCEPT ![st.codeIndex + 1] = st.code]

COBSDecode(raw) ==
  LET decoded == cobsDecode(raw)
  IN  IF decoded = Null THEN Null ELSE [protocol |-> "cobs", data |-> decoded.bytes]

COBSValidate(raw) ==
  IF Len(raw) = 0 THEN "EMPTY_FRAME"
  ELSE IF cobsDecode(raw) = Null THEN "INVALID_COBS"
  ELSE None

(***************************************************************************)
(* SLIPDecoder                                                             *)
(***************************************************************************)
SLIP_END == 192
SLIP_ESC == 219
SLIP_ESC_END == 220
SLIP_ESC_ESC == 221

(* the for loop of slipDecode; k is the 1-based read position. The        *)
(* Uint8Array returned is [bytes |-> ...], null is Null.                   *)
RECURSIVE SlipDecodeLoop(_, _, _, _)
SlipDecodeLoop(data, k, escaped, result) ==
  IF k > Len(data) THEN [bytes |-> result]
  ELSE LET byte == data[k]
       IN  IF byte = SLIP_END THEN [bytes |-> result]
           ELSE IF escaped
             THEN IF byte = SLIP_ESC_END
                    THEN SlipDecodeLoop(data, k + 1, FALSE, Append(result, SLIP_END))
                  ELSE IF byte = SLIP_ESC_ESC
                    THEN SlipDecodeLoop(data, k + 1, FALSE, Append(result, SLIP_ESC))
                  ELSE Null
           ELSE IF byte = SLIP_ESC
             THEN SlipDecodeLoop(data, k + 1, TRUE, result)
           ELSE SlipDecodeLoop(data, k + 1, FALSE, Append(result, byte))

slipDecode(data) == SlipDecodeLoop(data, 1, FALSE, << >>)

(* variant: END is pushed as it is *)
SlipEncodeByteEndAsIs(byte) ==
  IF byte = SLIP_ESC THEN << SLIP_ESC, SLIP_ESC_ESC >> ELSE << byte >>

(* one pass of the for loop of slipEncode *)
SlipEncodeByte(byte) ==
  IF byte = SLIP_END THEN << SLIP_ESC, SLIP_ESC_END >>
  ELSE IF byte = SLIP_ESC THEN << SLIP_ESC, SLIP_ESC_ESC >>
  ELSE << byte >>

(* the for loop of slipEncode over data[lo..hi], in order *)
RECURSIVE SlipEncodeRange(_, _, _)
SlipEncodeRange(data, lo, hi) ==
  IF lo > hi THEN << >>
  ELSE IF lo = hi THEN SlipEncodeByte(data[lo])
  ELSE LET mid == (lo + hi) \div 2
       IN  SlipEncodeRange(data, lo, mid) \o SlipEncodeRange(data, mid + 1, hi)

slipEncode(data) == Append(SlipEncodeRange(data, 1, Len(data)), SLIP_END)

SLIPDecode(raw) ==
  LET decoded == slipDecode(raw)
  IN  IF decoded = Null THEN Null ELSE [protocol |-> "slip", data |-> decoded.bytes]

SLIPValidate(raw) == IF Len(raw) = 0 THEN "EMPTY_FRAME" ELSE None

(***************************************************************************)
(* HexDecoder and ASCIIDecoder                                             *)
(***************************************************************************)
(* b.toString(16).padStart(2, '0'): the two hex digits of a byte *)
HexDigits(b) == << b \div 16, b % 16 >>

HexDecode(raw) ==
  [protocol |-> "hex", hex |-> [k \in 1..Len(raw) |-> HexDigits(raw[k])], raw |-> raw]

HexValidate(raw) == None

(* TextDecoder('ascii') decodes windows-1252: the code points of the bytes *)
(* 0x80 .. 0x9F, all other bytes decode to the code point of their value   *)
Windows1252High ==
  << 8364, 129, 8218, 402, 8222, 8230, 8224, 8225, 710, 8240, 352, 8249, 338,
     141, 381, 143, 144, 8216, 8217, 8220, 8221, 8226, 8211, 8212, 732, 8482,
     353, 8250, 339, 157, 382, 376 >>

AsciiText(raw) ==
  [k \in 1..Len(raw) |->
     IF raw[k] >= 128 /\ raw[k] < 160 THEN Windows1252High[raw[k] - 127] ELSE raw[k]]

ASCIIDecode(raw) == [protocol |-> "ascii", text |-> AsciiText(raw)]

ASCIIValidate(raw) ==
  IF \E k \in 1..Len(raw) : raw[k] < 32 /\ raw[k] /= 10 /\ raw[k] /= 13 /\ raw[k] /= 9
    THEN "NON_PRINTABLE" ELSE None

(* severity of a validate error *)
Severity(code) == IF code = "NON_PRINTABLE" THEN "warning" ELSE "error"

(***************************************************************************)
(* DEFAULT_DECODERS, by id.                                                *)
(***************************************************************************)
Decoders == { "efuse", "cobs", "slip", "hex", "ascii" }

Decode(id, raw) ==
  CASE id = "efuse" -> EFuseDecode(raw)
    [] id = "cobs" -> COBSDecode(raw)
    [] id = "slip" -> SLIPDecode(raw)
    [] id = "hex" -> HexDecode(raw)
    [] id = "ascii" -> ASCIIDecode(raw)

Validate(id, raw) ==
  CASE id = "efuse" -> EFuseValidate(raw)
    [] id = "cobs" -> COBSValidate(raw)
    [] id = "slip" -> SLIPValidate(raw)
    [] id = "hex" -> HexValidate(raw)
    [] id = "ascii" -> ASCIIValidate(raw)

(***************************************************************************)
(* Byte chunks used as inputs.                                             *)
(***************************************************************************)
ChunkAdc == << 170, 1, 0, 2, 8, 0, 92, 148, 187 >>
ChunkBadCrc == << 170, 1, 0, 2, 8, 0, 0, 0, 187 >>
ChunkBadLen == << 170, 1, 0, 5, 8, 0, 93, 174, 187 >>
ChunkShort == << 1 >>
Chunks == { ChunkAdc, ChunkBadCrc, ChunkBadLen, ChunkShort }

(***************************************************************************)
(* Frames written by callers.                                              *)
(***************************************************************************)
SpiWriteCmd == << 2, 255, 7, 9 >>
SpiReadCmd == << 3, 255, 0, 0 >>
TxFrames(kind) ==
  IF kind = "SPISimulator" THEN { SpiWriteCmd, SpiReadCmd } ELSE { ChunkAdc, ChunkShort }
RxChunks == { ChunkAdc, ChunkShort }

(***************************************************************************)
(* Sequences used as insertion-ordered sets (JavaScript Set).              *)
(***************************************************************************)
InSeq(x, s) == \E i \in 1..Len(s) : s[i] = x
SetAdd(s, x) == IF InSeq(x, s) THEN s ELSE Append(s, x)
SetDelete(s, x) == SelectSeq(s, LAMBDA y : y /= x)

(***************************************************************************)
(* Read subscribers. "pipe" is the session pipeline's callback; the others *)
(* are callers' callbacks: "a" only observes, "unsubA" invokes the         *)
(* unsubscribe token of "a", "closer" calls close() on the handle and      *)
(* "thrower" raises an exception.                                          *)
(***************************************************************************)
UserCallbacks == { "a", "unsubA", "closer", "thrower" }
Callbacks == UserCallbacks \cup { "pipe" }

(***************************************************************************)
(* SimulatorConfig, and the script given to scripted simulators.           *)
(***************************************************************************)
Script ==
  << [action |-> "receive", hasData |-> TRUE, data |-> ChunkAdc],
     [action |-> "disconnect", hasData |-> FALSE, data |-> << >>],
     [action |-> "send", hasData |-> TRUE, data |-> ChunkShort],
     [action |-> "error", hasData |-> FALSE, data |-> << >>] >>

(* config.script.events is script, config.script.loop is loop *)
SimulatorConfigs ==
  { c \in [mode : { "loopback", "scripted" }, loop : BOOLEAN, errorRate : BOOLEAN,
           script : { Script }] :
      c.mode = "loopback" => ~c.loop }

NoConfig == [mode |-> None, loop |-> FALSE, errorRate |-> FALSE, script |-> << >>]

(***************************************************************************)
(* Adapter handles. One record per handle object:                          *)
(*   stats          AdapterStats (uptime is computed on read, not stored)  *)
(*   readCallbacks  the subscriber Set, in insertion order                 *)
(*   scriptTimer    TRUE while the timer held in scriptTimer is pending    *)
(*   index          runScript's position in the script                     *)
(*   timeouts       frames held by setTimeout calls nobody keeps track of  *)
(*   memory         SPI memory, as the cells written so far (a cell never  *)
(*                  written holds its own address)                         *)
(*   port           state of the SerialPort behind a UARTHandle: "open",   *)
(*                  "closing" once close was called, "closed"              *)
(*   portOps        write/close calls handed to the port and not yet       *)
(*                  called back, each with the port state it found: the    *)
(*                  port refuses a call made while it is not open          *)
(*   closed         close() has completed on this handle                   *)
(*   tokens         callbacks that hold an unsubscribe token               *)
(*   unsubbed       callbacks whose token was invoked, and that did not    *)
(*                  call read again since                                  *)
(*   filters        CANHandle.filters                                      *)
(*   socket         TCPHandle.socket: none while undefined, else the state *)
(*                  of the socket ("connecting", "connected", "destroyed") *)
(*   server         TCPHandle.server is set (listener mode)                *)
(*   emitted        the chunks handed to the subscribers so far: the sum   *)
(*                  of their lengths and their number                      *)
(***************************************************************************)
ZeroStats ==
  [bytesRx |-> 0, bytesTx |-> 0, messagesRx |-> 0, messagesTx |-> 0, errors |-> 0]

EmptyMemory == [a \in {} |-> 0]

NoHandle ==
  [kind |-> None, config |-> NoConfig, stats |-> ZeroStats,
   readCallbacks |-> << >>, scriptTimer |-> FALSE, index |-> 0,
   timeouts |-> << >>, memory |-> EmptyMemory, port |-> None,
   portOps |-> << >>, closed |-> FALSE, tokens |-> {}, unsubbed |-> {},
   filters |-> << >>, socket |-> None, server |-> FALSE,
   emitted |-> [bytes |-> 0, count |-> 0],
   heard |-> 0, rxMeta |-> Null, sent |-> [count |-> 0, last |-> Null],
   threw |-> FALSE, lastWrite |-> Null,
   connections |-> [accepted |-> 0, socket |-> 0],
   burst |-> [ticks |-> 0, synthesized |-> << >>],
   can |-> [timer |-> FALSE, frameCounter |-> 0, ticks |-> 0, tickIds |-> << >>,
            lastObd |-> 0]]

(* executeNext of UARTSimulator.runScript. With no event at the index      *)
(* taken (an empty script that loops), events[index++] is undefined and    *)
(* reading event.delay throws a TypeError: threw, and no timer is set.     *)
ExecuteNext(hr) ==
  LET events == hr.config.script
  IN  IF hr.index >= Len(events) /\ ~hr.config.loop THEN hr
      ELSE LET idx == IF hr.index >= Len(events) THEN 0 ELSE hr.index
           IN  IF idx >= Len(events)
                 THEN [hr EXCEPT !.index = idx + 1, !.threw = TRUE]
                 ELSE [hr EXCEPT !.index = idx + 1, !.scriptTimer = TRUE]

(* new UARTSimulator(config): startSimulation. When runScript throws, the  *)
(* constructor throws and there is no handle: kind is none, config is the  *)
(* config given and threw is set.                                          *)
NewUARTSimulator(config) ==
  LET hr == [NoHandle EXCEPT !.kind = "UARTSimulator", !.config = config]
  IN  IF config.mode = "loopback" THEN hr
      ELSE IF config.mode = "scripted"
        THEN IF ExecuteNext(hr).threw
               THEN [NoHandle EXCEPT !.config = config, !.threw = TRUE]
               ELSE ExecuteNext(hr)
      ELSE IF config.mode = "burst" /\ config.burstInterval /= 0 /\ config.burstSize /= 0
        THEN [hr EXCEPT !.scriptTimer = TRUE]
      ELSE hr

(* new UARTHandle(port, options), on an opened port *)
NewUARTHandle == [NoHandle EXCEPT !.kind = "UARTHandle", !.port = "open"]

(* new SPISimulator(options) *)
NewSPISimulator == [NoHandle EXCEPT !.kind = "SPISimulator"]

(***************************************************************************)
(* close(): the part that runs before close() returns.                     *)
(***************************************************************************)
UARTSimulatorClose(hr) ==
  [hr EXCEPT !.scriptTimer = FALSE, !.readCallbacks = << >>, !.closed = TRUE]

SPISimulatorClose(hr) ==
  [hr EXCEPT !.readCallbacks = << >>, !.closed = TRUE]

UARTHandleClose(hr, by) ==
  [hr EXCEPT !.portOps = Append(@, [op |-> "close", frame |-> << >>, by |-> by,
                                    port |-> hr.port]),
             !.port = IF @ = "open" THEN "closing" ELSE @]

(* CANSimulator.close, I2CSimulator.close, CANHandle.close *)
CANSimulatorClose(hr) ==
  [hr EXCEPT !.can.timer = FALSE, !.readCallbacks = << >>, !.closed = TRUE]

I2CSimulatorClose(hr) == [hr EXCEPT !.readCallbacks = << >>, !.closed = TRUE]

CANHandleClose(hr) == [hr EXCEPT !.readCallbacks = << >>, !.closed = TRUE]

(* TCPHandle.close: destroys the socket; with a server, the subscribers    *)
(* are cleared when server.close calls back, without one they are kept     *)
TCPHandleClose(hr, by) ==
  [hr EXCEPT !.socket = IF @ = None THEN @ ELSE "destroyed",
             !.portOps = IF hr.server
                           THEN Append(@, [op |-> "close", frame |-> << >>, by |-> by,
                                           port |-> hr.socket])
                           ELSE @,
             !.closed = IF hr.server THEN @ ELSE TRUE]

CloseCall(hr, by) ==
  CASE hr.kind = "UARTSimulator" -> UARTSimulatorClose(hr)
    [] hr.kind = "SPISimulator" -> SPISimulatorClose(hr)
    [] hr.kind = "UARTHandle" -> UARTHandleClose(hr, by)
    [] hr.kind = "CANSimulator" -> CANSimulatorClose(hr)
    [] hr.kind = "I2CSimulator" -> I2CSimulatorClose(hr)
    [] hr.kind = "CANHandle" -> CANHandleClose(hr)
    [] hr.kind = "TCPHandle" -> TCPHandleClose(hr, by)

(***************************************************************************)
(* readCallbacks.forEach(cb => { try { cb(chunk, meta) } catch ... }).     *)
(* Set.forEach visits the entries in insertion order and skips an entry    *)
(* deleted before its turn. The result lists what happened, in order.      *)
(***************************************************************************)
Invoke(hr, cb) ==
  CASE cb = "unsubA" ->
         [hr EXCEPT !.readCallbacks = SetDelete(@, "a"),
                    !.unsubbed = IF "a" \in hr.tokens THEN @ \cup {"a"} ELSE @]
    [] cb = "closer" -> CloseCall(hr, "closer")
    [] OTHER -> hr

InvokeEvents(hr, cb) ==
  CASE cb = "unsubA" -> << [ev |-> "call", cb |-> cb], [ev |-> "unsub", cb |-> "a"] >>
    [] cb = "closer" -> << [ev |-> "call", cb |-> cb], [ev |-> "close", cb |-> cb] >>
    [] OTHER -> << [ev |-> "call", cb |-> cb] >>

(* variant: iterates over a copy of the Set taken when the delivery starts *)
RECURSIVE ForEachSnapshot(_, _, _)
ForEachSnapshot(hr, todo, events) ==
  IF todo = << >> THEN [h |-> hr, events |-> events]
  ELSE ForEachSnapshot(Invoke(hr, Head(todo)), Tail(todo),
                       events \o InvokeEvents(hr, Head(todo)))

RECURSIVE ForEach(_, _, _)
ForEach(hr, todo, events) ==
  LET rest == SelectSeq(todo, LAMBDA cb : InSeq(cb, hr.readCallbacks))
  IN  IF rest = << >> THEN [h |-> hr, events |-> events]
      ELSE ForEach(Invoke(hr, Head(rest)), Tail(rest),
                   events \o InvokeEvents(hr, Head(rest)))

(* the chunk is handed to the subscribers *)
Emit(hr, chunk) ==
  [hr EXCEPT !.emitted = [bytes |-> @.bytes + Len(chunk), count |-> @.count + 1]]

Deliver(hr, chunk) ==
  LET r == ForEach(Emit(hr, chunk), hr.readCallbacks, << >>)
  IN  [h |-> r.h, delivered |-> TRUE, chunk |-> chunk,
       before |-> hr.readCallbacks, events |-> r.events]

(* readCallbacks.forEach(cb => cb(chunk, meta)), with no try/catch: the    *)
(* exception of a subscriber leaves forEach, and the entries after it are  *)
(* not visited                                                             *)
RECURSIVE ForEachUnguarded(_, _, _)
ForEachUnguarded(hr, todo, events) ==
  LET rest == SelectSeq(todo, LAMBDA cb : InSeq(cb, hr.readCallbacks))
  IN  IF rest = << >> THEN [h |-> hr, events |-> events]
      ELSE IF Head(rest) = "thrower"
        THEN [h |-> hr, events |-> events \o InvokeEvents(hr, "thrower")
                                          \o << [ev |-> "uncaught", cb |-> "thrower"] >>]
      ELSE ForEachUnguarded(Invoke(hr, Head(rest)), Tail(rest),
                            events \o InvokeEvents(hr, Head(rest)))

DeliverUnguarded(hr, chunk) ==
  LET r == ForEachUnguarded(Emit(hr, chunk), hr.readCallbacks, << >>)
  IN  [h |-> r.h, delivered |-> TRUE, chunk |-> chunk,
       before |-> hr.readCallbacks, events |-> r.events]

NoDelivery(hr) ==
  [h |-> hr, delivered |-> FALSE, chunk |-> << >>, before |-> << >>, events |-> << >>]

AddRx(stats, n) ==
  [stats EXCEPT !.bytesRx = @ + n, !.messagesRx = @ + 1]

AddTx(stats, n) ==
  [stats EXCEPT !.bytesTx = @ + n, !.messagesTx = @ + 1]

(* UARTSimulator.simulateReceive; drop: Math.random() < errorRate *)
simulateReceive(hr, data, drop) ==
  IF hr.config.errorRate /\ drop
    THEN NoDelivery([hr EXCEPT !.stats.errors = @ + 1])
    ELSE Deliver([hr EXCEPT !.stats = AddRx(@, Len(data))], data)

(***************************************************************************)
(* SPISimulator.processTransaction                                         *)
(***************************************************************************)
SPI_MEMORY_LENGTH == 256

MemRead(memory, a) == IF a \in DOMAIN memory THEN memory[a] ELSE a

MemWrite(memory, a, v) ==
  [x \in DOMAIN memory \cup {a} |-> IF x = a THEN v ELSE memory[x]]

(* the loop over tx[lo..hi], split in halves; each half is evaluated before *)
(* the next one starts                                                     *)
RECURSIVE SpiStoreRange(_, _, _, _, _, _)
SpiStoreRange(memory, tx, addr, lo, hi, length) ==
  IF lo > hi THEN memory
  ELSE IF lo = hi THEN MemWrite(memory, (addr + lo - 2) % length, At(tx, lo))
  ELSE LET mid == (lo + hi) \div 2
           left == SpiStoreRange(memory, tx, addr, lo, mid, length)
       IN  IF left = left THEN SpiStoreRange(left, tx, addr, mid + 1, hi, length)
           ELSE memory

(* variant: the cell index is not reduced modulo the memory length *)
SpiStoreNoWrap(memory, tx, addr, i) ==
  SpiStoreRange(memory, tx, addr, i, Len(tx) - 1, 65536)

SpiStore(memory, tx, addr, i) ==
  SpiStoreRange(memory, tx, addr, i, Len(tx) - 1, SPI_MEMORY_LENGTH)

processTransaction(memory, tx) ==
  IF Len(tx) = 0 THEN [memory |-> memory, response |-> << >>]
  ELSE LET cmd == At(tx, 0)
           addr == IF Len(tx) > 1 THEN At(tx, 1) ELSE 0
       IN  IF cmd = 3
             THEN [memory |-> memory,
                   response |-> [k \in 1..Len(tx) |->
                                   IF k <= 2 THEN 0
                                   ELSE MemRead(memory, (addr + k - 3) % 256)]]
           ELSE IF cmd = 2
             THEN [memory |-> SpiStore(memory, tx, addr, 2), response |-> << 0 >>]
           ELSE [memory |-> memory, response |-> tx]

(***************************************************************************)
(* write(frame): the part that runs before write() returns.                *)
(***************************************************************************)
(* variant: write counts the frame and schedules no echo *)
UARTSimulatorWriteNoEcho(hr, frame) ==
  [hr EXCEPT !.stats = AddTx(@, Len(frame))]

UARTSimulatorWrite(hr, frame) ==
  [hr EXCEPT !.stats = AddTx(@, Len(frame)),
             !.timeouts = IF hr.config.mode = "loopback" THEN Append(@, frame) ELSE @]

SPISimulatorWrite(hr, frame) ==
  [hr EXCEPT !.stats = AddTx(@, Len(frame)), !.timeouts = Append(@, frame)]

UARTHandleWrite(hr, frame, by) ==
  [hr EXCEPT !.portOps = Append(@, [op |-> "write", frame |-> frame, by |-> by,
                                    port |-> hr.port])]

WriteCall(hr, frame, by) ==
  CASE hr.kind = "UARTSimulator" -> UARTSimulatorWrite(hr, frame)
    [] hr.kind = "SPISimulator" -> SPISimulatorWrite(hr, frame)
    [] hr.kind = "UARTHandle" -> UARTHandleWrite(hr, frame, by)

(* read(cb) and the token it returns *)
ReadCall(hr, cb) ==
  [hr EXCEPT !.readCallbacks = SetAdd(@, cb),
             !.tokens = @ \cup {cb},
             !.unsubbed = @ \ {cb}]

Unsubscribe(hr, cb) ==
  [hr EXCEPT !.readCallbacks = SetDelete(@, cb), !.unsubbed = @ \cup {cb}]

IsSimulator(hr) == hr.kind \in { "UARTSimulator", "SPISimulator" }

(***************************************************************************)
(* The clocks. process.hrtime.bigint() counts nanoseconds from an          *)
(* arbitrary origin; Date.now() counts milliseconds from the epoch.        *)
(***************************************************************************)
NsPerMs == 1000000
HrOrigins == { 1, 5 }
WallOrigins == { 3 }

(***************************************************************************)
(* CommWatchBackend: the session pipeline, as a function of its fields     *)
(* P = [frames, frameId, published].                                       *)
(***************************************************************************)
(* variant: validate is only run on a chunk that decoded *)
OnChunkValidateDecoded(P, chunk, ts, wall) ==
  LET frame == [id |-> P.frameId,
                timestamp |-> IF ts /= 0 THEN ts ELSE wall * NsPerMs,
                direction |-> "rx",
                raw |-> chunk,
                decoded |-> EFuseDecode(chunk),
                error |-> IF EFuseDecode(chunk) /= Null THEN EFuseValidate(chunk)
                                                        ELSE None]
  IN  [frames |-> Append(P.frames, frame),
       frameId |-> P.frameId + 1,
       published |-> Append(P.published, frame)]

(* the read callback of connect; ts is meta.timestamp, wall is Date.now() *)
OnChunk(P, chunk, ts, wall) ==
  LET frame == [id |-> P.frameId,
                timestamp |-> IF ts /= 0 THEN ts ELSE wall * NsPerMs,
                direction |-> "rx",
                raw |-> chunk,
                decoded |-> EFuseDecode(chunk),
                error |-> EFuseValidate(chunk)]
  IN  [frames |-> Append(P.frames, frame),
       frameId |-> P.frameId + 1,
       published |-> Append(P.published, frame)]

(* variant: the tx frame takes the id without advancing the counter *)
RecordTxKeepId(P, data, wall) ==
  LET frame == [id |-> P.frameId,
                timestamp |-> wall * NsPerMs,
                direction |-> "tx",
                raw |-> data,
                decoded |-> Null,
                error |-> None]
  IN  [frames |-> Append(P.frames, frame),
       frameId |-> P.frameId,
       published |-> Append(P.published, frame)]

(* send, after the awaited write has resolved *)
RecordTx(P, data, wall) ==
  LET frame == [id |-> P.frameId,
                timestamp |-> wall * NsPerMs,
                direction |-> "tx",
                raw |-> data,
                decoded |-> Null,
                error |-> None]
  IN  [frames |-> Append(P.frames, frame),
       frameId |-> P.frameId + 1,
       published |-> Append(P.published, frame)]

(***************************************************************************)
(* State.                                                                  *)
(*   handles        the handle objects created so far                      *)
(*   currentHandle  CommWatchBackend.currentHandle (0 is null)             *)
(*   frames, frameId, published   the session log, the id counter and the  *)
(*                  frames sent to the window                              *)
(*   opens          port.open calls of connect not yet called back         *)
(*   results        per operation, how many calls resolved and rejected    *)
(*   ncalls         calls made so far                                      *)
(*   hrNow, wallNow the two clocks                                         *)
(*   delivery       what the last chunk delivery did                       *)
(*   codec          a decoder at work: its input and what it returned      *)
(***************************************************************************)
VARIABLES handles, currentHandle, frames, frameId, published, opens,
          results, ncalls, hrNow, wallNow, delivery, codec, messageBus

vars == << handles, currentHandle, frames, frameId, published, opens,
           results, ncalls, hrNow, wallNow, delivery, codec, messageBus >>

H == 1..MaxHandles
Ops == { "connect", "disconnect", "send", "write", "close", "setOptions" }

Pipeline == [frames |-> frames, frameId |-> frameId, published |-> published]

SetPipeline(P) ==
  /\ frames' = P.frames
  /\ frameId' = P.frameId
  /\ published' = P.published

Resolve(op) == results' = [results EXCEPT ![op].ok = @ + 1]
Reject(op) == results' = [results EXCEPT ![op].err = @ + 1]

NoDeliveryYet == [h |-> 0, chunk |-> << >>, before |-> << >>, events |-> << >>]

(* no decoder at work *)
NoCodec == [decoder |-> None]

(* the event types of the message bus used here, and the listeners: "a"    *)
(* and "b" only observe, "thrower" throws                                  *)
BusEventTypes == { "frame:received", "device:error" }
Wildcard == "*"
BusListeners == { "a", "b", "thrower" }

(* new MessageBus(): listeners is the Map from event type to the Set of    *)
(* its listeners, allListeners the Set of wildcard listeners; a Set is the *)
(* sequence of its entries in insertion order, and a type without an entry *)
(* in the Map has the empty sequence (the code never keeps an empty Set in *)
(* the Map). registered lists the registrations in force, oldest first;    *)
(* emitted is what the last emit did.                                      *)
NewMessageBus ==
  [listeners |-> [t \in BusEventTypes |-> << >>], allListeners |-> << >>,
   registered |-> << >>, ops |-> 0, emitted |-> Null]

Called(events, cb) == \E i \in 1..Len(events) : events[i] = [ev |-> "call", cb |-> cb]

(* a handle event with outcome r (of Deliver or NoDelivery) takes effect *)
Commit(h, r) ==
  /\ handles' = [handles EXCEPT ![h] = r.h]
  /\ delivery' = IF r.delivered
                   THEN [h |-> h, chunk |-> r.chunk, before |-> r.before,
                         events |-> r.events]
                   ELSE delivery
  /\ IF r.delivered /\ Called(r.events, "pipe")
       THEN SetPipeline(OnChunk(Pipeline, r.chunk, hrNow, wallNow))
       ELSE UNCHANGED << frames, frameId, published >>

(***************************************************************************)
(* Events of the handles.                                                  *)
(***************************************************************************)
(* UARTHandle: port.on('data') *)
PortData(h, chunk) ==
  /\ handles[h].kind = "UARTHandle"
  /\ handles[h].port \in { "open", "closing" }
  /\ handles[h].stats.messagesRx < MaxFrames
  /\ Len(frames) < MaxFrames
  /\ Commit(h, Deliver([handles[h] EXCEPT !.stats = AddRx(@, Len(chunk))], chunk))
  /\ UNCHANGED << messageBus, codec, currentHandle, opens, results, ncalls, hrNow, wallNow >>

CallerOp(o) ==
  CASE o.by = "send" -> "send"
    [] o.by = "disconnect" -> "disconnect"
    [] OTHER -> o.op

(* variant: send records its tx frame whether or not the write worked *)
PortWriteDoneRecordsFailure(h, ok) ==
  LET hr == handles[h]
      o == Head(hr.portOps)
      hr1 == [hr EXCEPT !.portOps = Tail(@)]
  IN  /\ hr.kind = "UARTHandle"
      /\ hr.portOps /= << >>
      /\ o.op = "write"
      /\ IF ok /\ o.port = "open"
           THEN /\ handles' = [handles EXCEPT ![h] =
                                 [hr1 EXCEPT !.stats = AddTx(@, Len(o.frame))]]
                /\ Resolve(CallerOp(o))
           ELSE /\ handles' = [handles EXCEPT ![h] =
                                 [hr1 EXCEPT !.stats.errors = @ + 1]]
                /\ Reject(CallerOp(o))
      /\ IF o.by = "send"
           THEN SetPipeline(RecordTx(Pipeline, o.frame, wallNow))
           ELSE UNCHANGED << frames, frameId, published >>
      /\ UNCHANGED << messageBus, codec, currentHandle, opens, ncalls, hrNow, wallNow, delivery >>

(* UARTHandle.write: the callback of port.write; ok: the transfer worked *)
PortWriteDone(h, ok) ==
  LET hr == handles[h]
      o == Head(hr.portOps)
      hr1 == [hr EXCEPT !.portOps = Tail(@)]
  IN  /\ hr.kind = "UARTHandle"
      /\ hr.portOps /= << >>
      /\ o.op = "write"
      /\ IF ok /\ o.port = "open"
           THEN /\ handles' = [handles EXCEPT ![h] =
                                 [hr1 EXCEPT !.stats = AddTx(@, Len(o.frame))]]
                /\ Resolve(CallerOp(o))
                /\ IF o.by = "send"
                     THEN SetPipeline(RecordTx(Pipeline, o.frame, wallNow))
                     ELSE UNCHANGED << frames, frameId, published >>
           ELSE /\ handles' = [handles EXCEPT ![h] =
                                 [hr1 EXCEPT !.stats.errors = @ + 1]]
                /\ Reject(CallerOp(o))
                /\ UNCHANGED << frames, frameId, published >>
      /\ UNCHANGED << messageBus, codec, currentHandle, opens, ncalls, hrNow, wallNow, delivery >>

(* UARTHandle.close: the callback of port.close *)
PortCloseDone(h) ==
  LET hr == handles[h]
      o == Head(hr.portOps)
      hr1 == [hr EXCEPT !.portOps = Tail(@)]
  IN  /\ hr.kind = "UARTHandle"
      /\ hr.portOps /= << >>
      /\ o.op = "close"
      /\ IF o.port = "open"
           THEN /\ handles' = [handles EXCEPT ![h] =
                                 [hr1 EXCEPT !.port = "closed",
                                             !.readCallbacks = << >>,
                                             !.closed = TRUE]]
                /\ IF o.by = "closer" THEN UNCHANGED results
                                      ELSE Resolve(CallerOp(o))
                /\ currentHandle' = IF o.by = "disconnect" THEN 0 ELSE currentHandle
           ELSE /\ handles' = [handles EXCEPT ![h] = hr1]
                /\ IF o.by = "closer" THEN UNCHANGED results
                                      ELSE Reject(CallerOp(o))
                /\ UNCHANGED currentHandle
      /\ UNCHANGED << messageBus, codec, frames, frameId, published, opens, ncalls, hrNow, wallNow,
                      delivery >>

(* a setTimeout of write fires: the loopback echo of UARTSimulator, the    *)
(* transaction of SPISimulator                                             *)
SimTimeout(h, drop) ==
  LET hr == handles[h]
      frame == Head(hr.timeouts)
      hr1 == [hr EXCEPT !.timeouts = Tail(@)]
      t == processTransaction(hr.memory, frame)
  IN  /\ IsSimulator(hr)
      /\ hr.timeouts /= << >>
      /\ drop => (hr.kind = "UARTSimulator" /\ hr.config.errorRate)
      /\ Len(frames) < MaxFrames
      /\ IF hr.kind = "UARTSimulator"
           THEN Commit(h, simulateReceive(hr1, frame, drop))
           ELSE Commit(h, Deliver([hr1 EXCEPT !.memory = t.memory,
                                               !.stats = AddRx(@, Len(t.response)),
                                               !.lastWrite =
                                                  IF Len(frame) > 0 /\ At(frame, 0) = 2
                                                    THEN [frame |-> frame] ELSE @],
                                  t.response))
      /\ UNCHANGED << messageBus, codec, currentHandle, opens, results, ncalls, hrNow, wallNow >>

(* UARTSimulator.runScript: the timer of the current event fires *)
ScriptFire(h, drop) ==
  LET hr == handles[h]
      event == hr.config.script[hr.index]
      hr1 == [hr EXCEPT !.scriptTimer = FALSE]
      r == IF event.action \in { "send", "receive" } /\ event.hasData
             THEN simulateReceive(hr1, event.data, drop)
           ELSE IF event.action = "error"
             THEN NoDelivery([hr1 EXCEPT !.stats.errors = @ + 1])
           ELSE NoDelivery(hr1)
  IN  /\ hr.kind = "UARTSimulator"
      /\ hr.config.mode = "scripted"
      /\ hr.scriptTimer
      /\ drop => (hr.config.errorRate /\ event.hasData)
      /\ hr.stats.messagesRx + hr.stats.errors < MaxFrames
      /\ Len(frames) < MaxFrames
      /\ Commit(h, [r EXCEPT !.h = ExecuteNext(r.h)])
      /\ UNCHANGED << messageBus, codec, currentHandle, opens, results, ncalls, hrNow, wallNow >>

(***************************************************************************)
(* Calls on a handle by its owner.                                         *)
(***************************************************************************)
Read(h, cb) ==
  /\ handles[h].kind /= None
  /\ cb \notin handles[h].tokens
  /\ Cardinality(handles[h].tokens) < MaxSubs
  /\ handles' = [handles EXCEPT ![h] = ReadCall(@, cb)]
  /\ UNCHANGED << messageBus, codec, currentHandle, frames, frameId, published, opens, results,
                  ncalls, hrNow, wallNow, delivery >>

Unsub(h, cb) ==
  /\ cb \in handles[h].tokens
  /\ handles' = [handles EXCEPT ![h] = Unsubscribe(@, cb)]
  /\ UNCHANGED << messageBus, codec, currentHandle, frames, frameId, published, opens, results,
                  ncalls, hrNow, wallNow, delivery >>

Write(h, frame) ==
  /\ handles[h].kind /= None
  /\ ncalls < MaxCalls
  /\ ncalls' = ncalls + 1
  /\ handles' = [handles EXCEPT ![h] = WriteCall(@, frame, "user")]
  /\ IF IsSimulator(handles[h]) THEN Resolve("write") ELSE UNCHANGED results
  /\ UNCHANGED << messageBus, codec, currentHandle, frames, frameId, published, opens, hrNow,
                  wallNow, delivery >>

Close(h) ==
  /\ handles[h].kind /= None
  /\ ncalls < MaxCalls
  /\ ncalls' = ncalls + 1
  /\ handles' = [handles EXCEPT ![h] = CloseCall(@, "user")]
  /\ IF IsSimulator(handles[h]) THEN Resolve("close") ELSE UNCHANGED results
  /\ UNCHANGED << messageBus, codec, currentHandle, frames, frameId, published, opens, hrNow,
                  wallNow, delivery >>

(* setOptions: nothing to do on a simulator; on a UARTHandle port.update   *)
(* fails when the port is not open                                         *)
SetOptions(h) ==
  /\ handles[h].kind /= None
  /\ ncalls < MaxCalls
  /\ ncalls' = ncalls + 1
  /\ IF IsSimulator(handles[h]) \/ handles[h].port = "open"
       THEN Resolve("setOptions")
       ELSE Reject("setOptions")
  /\ UNCHANGED << messageBus, codec, handles, currentHandle, frames, frameId, published, opens,
                  hrNow, wallNow, delivery >>

(***************************************************************************)
(* A handle on its own, used by a caller that holds it.                    *)
(***************************************************************************)
InitialHandles ==
  { NewUARTHandle, NewSPISimulator } \cup { NewUARTSimulator(c) : c \in SimulatorConfigs }

HandleInit ==
  /\ \E hr \in InitialHandles : handles = [h \in H |-> IF h = 1 THEN hr ELSE NoHandle]
  /\ currentHandle = 0
  /\ frames = << >>
  /\ frameId = 0
  /\ published = << >>
  /\ opens = 0
  /\ results = [op \in Ops |-> [ok |-> 0, err |-> 0]]
  /\ ncalls = 0
  /\ hrNow = 1 * NsPerMs
  /\ wallNow \in WallOrigins
  /\ delivery = NoDeliveryYet
  /\ codec = NoCodec
  /\ messageBus = NewMessageBus

HandleNext ==
  \/ \E cb \in UserCallbacks : Read(1, cb)
  \/ \E cb \in UserCallbacks : Unsub(1, cb)
  \/ \E frame \in TxFrames(handles[1].kind) : Write(1, frame)
  \/ Close(1)
  \/ SetOptions(1)
  \/ \E chunk \in RxChunks : PortData(1, chunk)
  \/ \E ok \in BOOLEAN : PortWriteDone(1, ok)
  \/ PortCloseDone(1)
  \/ \E drop \in BOOLEAN : SimTimeout(1, drop)
  \/ \E drop \in BOOLEAN : ScriptFire(1, drop)

HandleSpec == HandleInit /\ [][HandleNext]_vars

(***************************************************************************)
(* CANHandle, CANSimulator, I2CSimulator and TCPHandle.                    *)
(***************************************************************************)
(* a CAN message of the channel, and the filters of the open options *)
CanMessages ==
  { [id |-> 256, ext |-> FALSE, rtr |-> FALSE, data |-> << 1, 2 >>],
    [id |-> 512, ext |-> FALSE, rtr |-> TRUE, data |-> << >>],
    [id |-> 2016, ext |-> FALSE, rtr |-> FALSE, data |-> << 2, 1, 12, 0, 0, 0, 0, 0 >>],
    [id |-> 74565, ext |-> TRUE, rtr |-> FALSE, data |-> << 9 >>] }

CanFilterSets ==
  { << >>,
    << [id |-> 256, mask |-> 2047, extended |-> "unset"] >>,
    << [id |-> 74565, mask |-> 536870911, extended |-> "false"],
       [id |-> 256, mask |-> 1792, extended |-> "false"] >> }

(* filters.some(...) of the onMessage listener *)
FilterMatches(f, msg) ==
  /\ BitAnd(msg.id, f.mask) = BitAnd(f.id, f.mask)
  /\ f.extended = "unset" \/ (f.extended = "true") = msg.ext

PassesFilters(filters, msg) ==
  Len(filters) > 0 => \E i \in 1..Len(filters) : FilterMatches(filters[i], msg)

(* variant: the id is written with its low byte first *)
CanFrameLittleEndian(msg) ==
  << BitAnd(msg.id, 255), BitAnd(Shr(msg.id, 8), 255),
     BitAnd(Shr(msg.id, 16), 255), BitAnd(Shr(msg.id, 24), 255), Len(msg.data) >>
    \o msg.data

(* [ID(4)] [DLC(1)] [DATA(0-8)] *)
CanFrame(msg) ==
  << BitAnd(Shr(msg.id, 24), 255), BitAnd(Shr(msg.id, 16), 255),
     BitAnd(Shr(msg.id, 8), 255), BitAnd(msg.id, 255), Len(msg.data) >> \o msg.data

(* meta.transportSpecific of the onMessage listener *)
CanMeta(msg) ==
  [canId |-> msg.id, canExt |-> msg.ext, canRtr |-> msg.rtr, canDlc |-> Len(msg.data)]

(* the CANMessage that CANHandle.write builds from a frame of 5 bytes or   *)
(* more; << and | work on signed 32-bit integers                           *)
CanTxMessage(frame) ==
  LET top == IF At(frame, 0) >= 128 THEN At(frame, 0) - 256 ELSE At(frame, 0)
      id == top * 16777216 + At(frame, 1) * 65536 + At(frame, 2) * 256 + At(frame, 3)
      dlc == At(frame, 4)
  IN  [id |-> id, ext |-> id > 2047, rtr |-> FALSE, data |-> Slice(frame, 5, 5 + dlc)]

NewCANHandle(filters) == [NoHandle EXCEPT !.kind = "CANHandle", !.filters = filters]

(* new CANSimulator(config): startSimulation sets the interval timer *)
NewCANSimulator(config) ==
  [NoHandle EXCEPT !.kind = "CANSimulator", !.config = config, !.can.timer = TRUE]

NewI2CSimulator == [NoHandle EXCEPT !.kind = "I2CSimulator"]

(* new TCPHandle(options): with ethHost a socket is created and connects,  *)
(* without it a server listens and there is no socket yet                  *)
NewTCPHandle(client) ==
  [NoHandle EXCEPT !.kind = "TCPHandle",
                   !.socket = IF client THEN "connecting" ELSE None,
                   !.server = ~client]

(* the devices of I2CSimulator, by 7-bit address: null when there is none  *)
I2C_EEPROM == 80
I2C_SENSOR == 104

I2CDevice(addr) ==
  CASE addr = I2C_EEPROM -> [bytes |-> [k \in 1..256 |-> 170]]
    [] addr = I2C_SENSOR -> [bytes |-> << 18, 52, 86, 120 >>]
    [] OTHER -> Null

(* I2CSimulator.write, before it returns *)
I2CSimulatorWrite(hr, frame) ==
  LET hr1 == [hr EXCEPT !.stats = AddTx(@, Len(frame))]
  IN  IF Len(frame) < 2 THEN hr1
      ELSE LET addr == Shr(At(frame, 0), 1)
               rw == BitAnd(At(frame, 0), 1)
               device == I2CDevice(addr)
               len == IF At(frame, 1) = 0 THEN 1 ELSE At(frame, 1)
           IN  IF rw = 1 /\ device /= Null
                 THEN [hr1 EXCEPT !.timeouts = Append(@, Slice(device.bytes, 0, len))]
               ELSE IF rw = 0 THEN [hr1 EXCEPT !.lastWrite = [frame |-> frame]]
               ELSE hr1

(* CANSimulator.write, before it returns *)
CANSimulatorWrite(hr, frame) ==
  [hr EXCEPT !.stats = AddTx(@, Len(frame)),
             !.timeouts = IF hr.config.mode = "loopback" THEN Append(@, frame) ELSE @]

(* frames written to the simulators and handles *)
CanTxFrame == << 0, 0, 1, 0, 2, 7, 9 >>
CanTxShort == << 0, 0, 1, 0 >>
CanTxLongDlc == << 0, 0, 1, 0, 9, 1, 2, 3, 4, 5, 6, 7, 8, 9 >>
I2cReadSensor == << 209, 2 >>
I2cReadNobody == << 3, 1 >>
I2cWriteSensor == << 208, 5 >>
I2cWriteSensorData == << 208, 2, 7, 9 >>

BusTxFrames(kind) ==
  CASE kind = "I2CSimulator" -> { I2cReadSensor, I2cReadNobody, I2cWriteSensor, I2cWriteSensorData, ChunkShort }
    [] kind = "TCPHandle" -> { ChunkAdc, ChunkShort }
    [] kind = "CANHandle" -> { CanTxFrame, CanTxShort, CanTxLongDlc }
    [] OTHER -> { CanTxFrame, CanTxShort }

(* write on a CANSimulator or an I2CSimulator *)
WriteSimulator(h, frame) ==
  /\ handles[h].kind \in { "CANSimulator", "I2CSimulator" }
  /\ ncalls < MaxCalls
  /\ ncalls' = ncalls + 1
  /\ handles' = [handles EXCEPT ![h] =
                   IF @.kind = "CANSimulator" THEN CANSimulatorWrite(@, frame)
                                              ELSE I2CSimulatorWrite(@, frame)]
  /\ Resolve("write")
  /\ UNCHANGED << messageBus, codec, currentHandle, frames, frameId, published, opens, hrNow,
                  wallNow, delivery >>

(* the setTimeout of write fires: the loopback echo of CANSimulator, the   *)
(* read response of I2CSimulator                                           *)
BusTimeout(h) ==
  LET hr == handles[h]
      chunk == Head(hr.timeouts)
      hr1 == [hr EXCEPT !.timeouts = Tail(@)]
  IN  /\ hr.kind \in { "CANSimulator", "I2CSimulator" }
      /\ hr.timeouts /= << >>
      /\ IF hr.kind = "CANSimulator"
           THEN Commit(h, DeliverUnguarded(hr1, chunk))
           ELSE Commit(h, DeliverUnguarded([hr1 EXCEPT !.stats = AddRx(@, Len(chunk))],
                                           chunk))
      /\ UNCHANGED << messageBus, codec, currentHandle, opens, results, ncalls, hrNow, wallNow >>

(* CANHandle.write; sendOk: channel.send(msg) does not throw *)
WriteCANHandle(h, frame, sendOk) ==
  /\ handles[h].kind = "CANHandle"
  /\ ncalls < MaxCalls
  /\ ncalls' = ncalls + 1
  /\ IF Len(frame) < 5
       THEN Reject("write") /\ UNCHANGED handles
       ELSE IF sendOk
         THEN /\ handles' = [handles EXCEPT ![h].stats = AddTx(@, Len(frame)),
                                            ![h].sent = [count |-> @.count + 1,
                                                         last |-> CanTxMessage(frame)]]
              /\ Resolve("write")
         ELSE /\ handles' = [handles EXCEPT ![h].stats.errors = @ + 1]
              /\ Reject("write")
  /\ UNCHANGED << messageBus, codec, currentHandle, frames, frameId, published, opens, hrNow,
                  wallNow, delivery >>

(* CANHandle: the onMessage listener of the channel *)
OnMessage(h, msg) ==
  LET hr == handles[h]
      frame == CanFrame(msg)
  IN  /\ hr.kind = "CANHandle"
      /\ ~hr.closed
      /\ hr.heard < MaxFrames
      /\ IF PassesFilters(hr.filters, msg)
           THEN Commit(h, Deliver([hr EXCEPT !.heard = @ + 1,
                                             !.stats = AddRx(@, Len(frame)),
                                             !.rxMeta = CanMeta(msg)], frame))
           ELSE Commit(h, NoDelivery([hr EXCEPT !.heard = @ + 1]))
      /\ UNCHANGED << messageBus, codec, currentHandle, opens, results, ncalls, hrNow, wallNow >>

(* TCPHandle.write: throws when there is no socket, else hands the bytes   *)
(* to socket.write                                                         *)
WriteTCPHandle(h, frame) ==
  /\ handles[h].kind = "TCPHandle"
  /\ ncalls < MaxCalls
  /\ ncalls' = ncalls + 1
  /\ IF handles[h].socket = None
       THEN Reject("write") /\ UNCHANGED handles
       ELSE /\ handles' = [handles EXCEPT ![h].portOps =
                             Append(@, [op |-> "write", frame |-> frame, by |-> "user",
                                        port |-> handles[h].socket])]
            /\ UNCHANGED results
  /\ UNCHANGED << messageBus, codec, currentHandle, frames, frameId, published, opens, hrNow,
                  wallNow, delivery >>

(* TCPHandle.write: the callback of socket.write; a destroyed socket       *)
(* refuses the bytes                                                       *)
SocketWriteDone(h, ok) ==
  LET hr == handles[h]
      o == Head(hr.portOps)
      hr1 == [hr EXCEPT !.portOps = Tail(@)]
  IN  /\ hr.kind = "TCPHandle"
      /\ hr.portOps /= << >>
      /\ o.op = "write"
      /\ IF ok /\ o.port /= "destroyed" /\ hr.socket /= "destroyed"
           THEN /\ handles' = [handles EXCEPT ![h] =
                                 [hr1 EXCEPT !.stats = AddTx(@, Len(o.frame))]]
                /\ Resolve("write")
           ELSE /\ handles' = [handles EXCEPT ![h] =
                                 [hr1 EXCEPT !.stats.errors = @ + 1]]
                /\ Reject("write")
      /\ UNCHANGED << messageBus, codec, currentHandle, frames, frameId, published, opens, ncalls,
                      hrNow, wallNow, delivery >>

(* TCPHandle: the client socket connects, or the callback of createServer  *)
(* runs for an incoming connection: it assigns this.socket and sets up the *)
(* listeners of the new socket, whether or not there is a socket already.  *)
(* connections.accepted numbers the connections, connections.socket is the *)
(* one this.socket refers to                                               *)
SocketConnected(h) ==
  /\ handles[h].kind = "TCPHandle"
  /\ \/ handles[h].socket = "connecting"
     \/ /\ handles[h].server /\ ~handles[h].closed
        /\ handles[h].socket \in { None, "connected" }
        /\ handles[h].connections.accepted < MaxConnections
  /\ handles' = [handles EXCEPT ![h].socket = "connected",
                                ![h].connections.accepted = @ + 1,
                                ![h].connections.socket =
                                   handles[h].connections.accepted + 1]
  /\ UNCHANGED << messageBus, codec, currentHandle, frames, frameId, published, opens, results,
                  ncalls, hrNow, wallNow, delivery >>

(* TCPHandle: socket.on('data') of connection c, which is this.socket or   *)
(* an earlier accepted socket, whose listeners stay in place               *)
SocketData(h, chunk, c) ==
  /\ handles[h].kind = "TCPHandle"
  /\ c <= handles[h].connections.accepted
  /\ c = handles[h].connections.socket => handles[h].socket = "connected"
  /\ handles[h].emitted.count < MaxFrames
  /\ Commit(h, Deliver([handles[h] EXCEPT !.stats = AddRx(@, Len(chunk))], chunk))
  /\ UNCHANGED << messageBus, codec, currentHandle, opens, results, ncalls, hrNow, wallNow >>

(* TCPHandle.close with a server: the callback of server.close *)
ServerCloseDone(h) ==
  LET hr == handles[h]
      o == Head(hr.portOps)
  IN  /\ hr.kind = "TCPHandle"
      /\ hr.portOps /= << >>
      /\ o.op = "close"
      /\ handles' = [handles EXCEPT ![h] =
                       [hr EXCEPT !.portOps = Tail(@), !.readCallbacks = << >>,
                                  !.closed = TRUE]]
      /\ IF o.by = "closer" THEN UNCHANGED results ELSE Resolve("close")
      /\ UNCHANGED << messageBus, codec, currentHandle, frames, frameId, published, opens, ncalls,
                      hrNow, wallNow, delivery >>

(* close on one of these handles *)
CloseBus(h) ==
  /\ handles[h].kind \in { "CANSimulator", "I2CSimulator", "CANHandle", "TCPHandle" }
  /\ ncalls < MaxCalls
  /\ ncalls' = ncalls + 1
  /\ handles' = [handles EXCEPT ![h] = CloseCall(@, "user")]
  /\ IF handles[h].kind = "TCPHandle" /\ handles[h].server
       THEN UNCHANGED results
       ELSE Resolve("close")
  /\ UNCHANGED << messageBus, codec, currentHandle, frames, frameId, published, opens, hrNow,
                  wallNow, delivery >>

CanSimulatorConfigs == { c \in SimulatorConfigs : ~c.loop /\ ~c.errorRate }

BusHandles ==
  { NewCANHandle(f) : f \in CanFilterSets }
    \cup { NewCANSimulator(c) : c \in CanSimulatorConfigs }
    \cup { NewI2CSimulator }

BusInit ==
  /\ \E hr \in BusHandles : handles = [h \in H |-> IF h = 1 THEN hr ELSE NoHandle]
  /\ currentHandle = 0
  /\ frames = << >>
  /\ frameId = 0
  /\ published = << >>
  /\ opens = 0
  /\ results = [op \in Ops |-> [ok |-> 0, err |-> 0]]
  /\ ncalls = 0
  /\ hrNow = 1 * NsPerMs
  /\ wallNow \in WallOrigins
  /\ delivery = NoDeliveryYet
  /\ codec = NoCodec
  /\ messageBus = NewMessageBus

BusNext ==
  \/ \E cb \in UserCallbacks : Read(1, cb)
  \/ \E cb \in UserCallbacks : Unsub(1, cb)
  \/ \E frame \in BusTxFrames(handles[1].kind) : WriteSimulator(1, frame)
  \/ BusTimeout(1)
  \/ \E frame \in BusTxFrames(handles[1].kind), sendOk \in BOOLEAN :
       WriteCANHandle(1, frame, sendOk)
  \/ \E msg \in CanMessages : OnMessage(1, msg)
  \/ CloseBus(1)

BusSpec == BusInit /\ [][BusNext]_vars

(***************************************************************************)
(* A TCPHandle on its own, as a client or as a listener.                   *)
(***************************************************************************)
TcpInit ==
  /\ \E client \in BOOLEAN :
       handles = [h \in H |-> IF h = 1 THEN NewTCPHandle(client) ELSE NoHandle]
  /\ currentHandle = 0
  /\ frames = << >>
  /\ frameId = 0
  /\ published = << >>
  /\ opens = 0
  /\ results = [op \in Ops |-> [ok |-> 0, err |-> 0]]
  /\ ncalls = 0
  /\ hrNow = 1 * NsPerMs
  /\ wallNow \in WallOrigins
  /\ delivery = NoDeliveryYet
  /\ codec = NoCodec
  /\ messageBus = NewMessageBus

TcpNext ==
  \/ \E cb \in UserCallbacks : Read(1, cb)
  \/ \E cb \in UserCallbacks : Unsub(1, cb)
  \/ \E frame \in BusTxFrames(handles[1].kind) : WriteTCPHandle(1, frame)
  \/ \E ok \in BOOLEAN : SocketWriteDone(1, ok)
  \/ SocketConnected(1)
  \/ \E chunk \in RxChunks, c \in 1..MaxConnections : SocketData(1, chunk, c)
  \/ ServerCloseDone(1)
  \/ CloseBus(1)

TcpSpec == TcpInit /\ [][TcpNext]_vars

(***************************************************************************)
(* CommWatchBackend: connect, disconnect, send.                            *)
(***************************************************************************)
Created == { h \in H : handles[h].kind /= None }

(* the continuation of connect after the awaited adapter.open *)
Adopt(hr) ==
  LET h == Cardinality(Created) + 1
  IN  /\ handles' = [handles EXCEPT ![h] = ReadCall(hr, "pipe")]
      /\ currentHandle' = h

(* connect; type is device.type. The SPI adapter opens at once, the UART   *)
(* adapter when port.open calls back, any other type is unknown.           *)
Connect(type) ==
  /\ ncalls < MaxCalls
  /\ ncalls' = ncalls + 1
  /\ CASE type = "spi" ->
            /\ Cardinality(Created) + opens < MaxHandles
            /\ Adopt(NewSPISimulator)
            /\ Resolve("connect")
            /\ UNCHANGED opens
       [] type = "uart" ->
            /\ Cardinality(Created) + opens < MaxHandles
            /\ opens' = opens + 1
            /\ UNCHANGED << handles, currentHandle, results >>
       [] OTHER ->
            /\ Reject("connect")
            /\ UNCHANGED << handles, currentHandle, opens >>
  /\ UNCHANGED << messageBus, codec, frames, frameId, published, hrNow, wallNow, delivery >>

(* UARTAdapter.open: the callback of port.open *)
OpenDone(ok) ==
  /\ opens > 0
  /\ opens' = opens - 1
  /\ IF ok THEN Adopt(NewUARTHandle) /\ Resolve("connect")
           ELSE Reject("connect") /\ UNCHANGED << handles, currentHandle >>
  /\ UNCHANGED << messageBus, codec, frames, frameId, published, ncalls, hrNow, wallNow, delivery >>

(* CommWatchBackend.disconnect: closes the current handle, if any, and      *)
(* forgets it once the close has resolved.                                 *)
Disconnect ==
  /\ ncalls < MaxCalls
  /\ ncalls' = ncalls + 1
  /\ IF currentHandle = 0
       THEN Resolve("disconnect") /\ UNCHANGED << handles, currentHandle >>
       ELSE /\ handles' = [handles EXCEPT ![currentHandle] = CloseCall(@, "disconnect")]
            /\ IF IsSimulator(handles[currentHandle])
                 THEN Resolve("disconnect") /\ currentHandle' = 0
                 ELSE UNCHANGED << results, currentHandle >>
  /\ UNCHANGED << messageBus, codec, frames, frameId, published, opens, hrNow, wallNow, delivery >>

(* variant: send records the tx frame first and writes afterwards *)
SendRecordFirst(data) ==
  /\ ncalls < MaxCalls
  /\ ncalls' = ncalls + 1
  /\ Len(frames) < MaxFrames
  /\ IF currentHandle = 0
       THEN Reject("send") /\ UNCHANGED << handles, frames, frameId, published >>
       ELSE /\ SetPipeline(RecordTx(Pipeline, data, wallNow))
            /\ handles' = [handles EXCEPT ![currentHandle] = WriteCall(@, data, "user")]
            /\ IF IsSimulator(handles[currentHandle])
                 THEN Resolve("send")
                 ELSE UNCHANGED results
  /\ UNCHANGED << messageBus, codec, currentHandle, opens, hrNow, wallNow, delivery >>

(* CommWatchBackend.send: throws when not connected; otherwise awaits the  *)
(* handle's write and then records and publishes the tx frame.             *)
Send(data) ==
  /\ ncalls < MaxCalls
  /\ ncalls' = ncalls + 1
  /\ Len(frames) < MaxFrames
  /\ IF currentHandle = 0
       THEN Reject("send") /\ UNCHANGED << handles, frames, frameId, published >>
       ELSE /\ handles' = [handles EXCEPT ![currentHandle] = WriteCall(@, data, "send")]
            /\ IF IsSimulator(handles[currentHandle])
                 THEN Resolve("send") /\ SetPipeline(RecordTx(Pipeline, data, wallNow))
                 ELSE UNCHANGED << results, frames, frameId, published >>
  /\ UNCHANGED << messageBus, codec, currentHandle, opens, hrNow, wallNow, delivery >>

(* a millisecond passes *)
Tick ==
  /\ \E o \in WallOrigins : wallNow < o + MaxTicks
  /\ wallNow' = wallNow + 1
  /\ hrNow' = hrNow + NsPerMs
  /\ UNCHANGED << messageBus, codec, handles, currentHandle, frames, frameId, published, opens,
                  results, ncalls, delivery >>

Init ==
  /\ handles = [h \in H |-> NoHandle]
  /\ currentHandle = 0
  /\ frames = << >>
  /\ frameId = 0
  /\ published = << >>
  /\ opens = 0
  /\ results = [op \in Ops |-> [ok |-> 0, err |-> 0]]
  /\ ncalls = 0
  /\ \E o \in HrOrigins : hrNow = o * NsPerMs
  /\ wallNow \in WallOrigins
  /\ delivery = NoDeliveryYet
  /\ codec = NoCodec
  /\ messageBus = NewMessageBus

SendFrames ==
  IF currentHandle = 0 THEN { ChunkAdc } ELSE TxFrames(handles[currentHandle].kind)

Next ==
  \/ \E type \in { "uart", "spi", "bogus" } : Connect(type)
  \/ \E ok \in BOOLEAN : OpenDone(ok)
  \/ Disconnect
  \/ \E data \in SendFrames : Send(data)
  \/ Tick
  \/ \E h \in H, chunk \in Chunks : PortData(h, chunk)
  \/ \E h \in H, ok \in BOOLEAN : PortWriteDone(h, ok)
  \/ \E h \in H : PortCloseDone(h)
  \/ \E h \in H : SimTimeout(h, FALSE)

Spec == Init /\ [][Next]_vars

(***************************************************************************)
(* A decoder at work. codec holds                                          *)
(*   decoder   the decoder id                                              *)
(*   given     "fields" when the caller starts from fields to encode,      *)
(*             "raw" when it starts from received bytes                    *)
(*   type, payload, encoded   the fields given to encode, and whether      *)
(*                            encode has produced raw from them            *)
(*   raw       the bytes given to decode and validate                      *)
(*   original  the encoded bytes before one of them was changed            *)
(*   ranDecode, decoded       decode has returned, and what                *)
(*   ranValidate, error       validate has returned, and what              *)
(***************************************************************************)
RECURSIVE SeqsUpTo(_, _)
SeqsUpTo(S, n) ==
  IF n = 0 THEN { << >> }
  ELSE LET shorter == SeqsUpTo(S, n - 1)
       IN  shorter \cup { Append(q, b) : q \in shorter, b \in S }

PayloadBytes == { 0, 8 }
LongPayload == [k \in 1..LongPayloadLen |-> 8]
Payloads == SeqsUpTo(PayloadBytes, MaxPayload) \cup { LongPayload }
ShortPayloads == SeqsUpTo(PayloadBytes, MaxPayload)

(* EFuse-shaped inputs: every part of the frame right or wrong *)
EFuseShaped ==
  { << start, 1, lenHi, lenLo >> \o payload
      \o (IF crcOk
            THEN << Shr(crc16CcittFalse(<< 1, lenHi, lenLo >> \o payload), 8),
                    crc16CcittFalse(<< 1, lenHi, lenLo >> \o payload) % 256 >>
            ELSE << 0, 0 >>)
      \o << end >> :
      start \in { START_MARKER, 0 }, lenHi \in { 0, 1 }, lenLo \in { 0, 1, 2, 5 },
      payload \in ShortPayloads, crcOk \in BOOLEAN, end \in { END_MARKER, 0 } }

(* payloads of Config frames (type 0x03): four bytes and more, with the    *)
(* first byte below and from 0x80                                          *)
ConfigPayloads ==
  { << 0, 0, 1, 2 >>, << 18, 52, 86, 120, 9 >>, << 127, 255, 255, 255 >>,
    << 128, 0, 0, 0 >>, << 255, 255, 255, 255 >> }

RawBytes == { 0, 1, 10, 192, 219, 220 }

(* the data given to cobsEncode and slipEncode: short sequences with the   *)
(* bytes the two encodings treat specially, and for COBS runs of non-zero  *)
(* bytes around the longest block, alone and followed by zeros             *)
DataBytes == { 0, 1, 192, 219, 220, 221, 255 }
CobsFullRun == COBS_MAX_CODE - 1
NonZeroRun(n) == [k \in 1..n |-> (k % 255) + 1]
LongRuns ==
  { NonZeroRun(n) \o tail :
      n \in { CobsFullRun - 1, CobsFullRun, CobsFullRun + 1, 2 * CobsFullRun },
      tail \in SeqsUpTo({ 0, 7 }, 2) }
(* the data given to CRCCalculator: the nine ASCII digits "123456789" and  *)
(* short sequences                                                         *)
Digits == << 49, 50, 51, 52, 53, 54, 55, 56, 57 >>
CrcInputs == { Digits } \cup SeqsUpTo(RawBytes, MaxRawLen)

DataInputs(id) ==
  SeqsUpTo(DataBytes, MaxRawLen) \cup (IF id = "cobs" THEN LongRuns ELSE { })

RawInputs(id) ==
  IF id = "efuse"
    THEN EFuseShaped \cup { << >>, ChunkShort, << START_MARKER, 1, 0, 0, 0, END_MARKER >> }
    ELSE SeqsUpTo(RawBytes, MaxRawLen)

NewCodec(id) ==
  [decoder |-> id, given |-> "raw", type |-> 0, payload |-> << >>, encoded |-> FALSE,
   raw |-> << >>, original |-> << >>,
   ranDecode |-> FALSE, decoded |-> Null, ranValidate |-> FALSE, error |-> None]

CodecInit ==
  /\ messageBus = NewMessageBus
  /\ handles = [h \in H |-> NoHandle]
  /\ currentHandle = 0
  /\ frames = << >>
  /\ frameId = 0
  /\ published = << >>
  /\ opens = 0
  /\ results = [op \in Ops |-> [ok |-> 0, err |-> 0]]
  /\ ncalls = 0
  /\ hrNow = 0
  /\ wallNow = 0
  /\ delivery = NoDeliveryYet
  /\ \/ \E id \in Decoders : \E raw \in RawInputs(id) :
          codec = [NewCodec(id) EXCEPT !.raw = raw, !.original = raw]
     \/ \E type \in 0..255, payload \in Payloads :
          /\ (payload = LongPayload) => (type = 255)
          /\ codec = [NewCodec("efuse") EXCEPT !.given = "fields", !.type = type,
                                            !.payload = payload]
     \/ \E payload \in ConfigPayloads :
          codec = [NewCodec("efuse") EXCEPT !.given = "fields", !.type = 3,
                                            !.payload = payload]
     \/ \E id \in { "cobs", "slip" } : \E data \in DataInputs(id) :
          codec = [NewCodec(id) EXCEPT !.given = "fields", !.payload = data]
     \/ \E data \in CrcInputs :
          codec = [NewCodec("crc") EXCEPT !.raw = data, !.original = data]

CodecUnchanged ==
  UNCHANGED << handles, currentHandle, frames, frameId, published, opens,
               results, ncalls, hrNow, wallNow, delivery, messageBus >>

(* decoder.encode(fields): the fields are {type, payload} for EFuse and   *)
(* {data} for COBS and SLIP                                                *)
Encode(id, type, payload) ==
  CASE id = "cobs" -> cobsEncode(payload)
    [] id = "slip" -> slipEncode(payload)
    [] OTHER -> EFuseEncode(type, payload)

CodecEncode ==
  /\ codec.given = "fields"
  /\ ~codec.encoded
  /\ codec' = [codec EXCEPT !.encoded = TRUE,
                            !.raw = Encode(codec.decoder, codec.type, codec.payload),
                            !.original = Encode(codec.decoder, codec.type, codec.payload)]
  /\ CodecUnchanged

(* one byte of the CRC field of an encoded frame is changed on the way *)
CodecCorruptCrc(high, v) ==
  LET k == IF high THEN Len(codec.raw) - 2 ELSE Len(codec.raw) - 1
  IN  /\ codec.decoder = "efuse"
      /\ codec.encoded
      /\ codec.raw = codec.original
      /\ ~codec.ranDecode /\ ~codec.ranValidate
      /\ v /= codec.raw[k]
      /\ codec' = [codec EXCEPT !.raw[k] = v]
      /\ CodecUnchanged

(* CRCCalculator.crc16CcittFalse(data) and CRCCalculator.crc32(data) *)
CodecCrc ==
  /\ codec.decoder = "crc"
  /\ ~codec.ranDecode
  /\ codec' = [codec EXCEPT !.ranDecode = TRUE,
                            !.decoded = [crc16 |-> crc16CcittFalse(codec.raw),
                                         crc32 |-> crc32(codec.raw)]]
  /\ CodecUnchanged

(* decoder.decode(raw) *)
CodecDecode ==
  /\ codec.decoder \in Decoders
  /\ codec.given = "raw" \/ codec.encoded
  /\ ~codec.ranDecode
  /\ codec' = [codec EXCEPT !.ranDecode = TRUE,
                            !.decoded = Decode(codec.decoder, codec.raw)]
  /\ CodecUnchanged

(* decoder.validate(raw) *)
CodecValidate ==
  /\ codec.decoder \in Decoders
  /\ codec.given = "raw" \/ codec.encoded
  /\ ~codec.ranValidate
  /\ codec' = [codec EXCEPT !.ranValidate = TRUE,
                            !.error = Validate(codec.decoder, codec.raw)]
  /\ CodecUnchanged

CorruptBytes == { 0, 92, 255 }

CodecNext ==
  \/ CodecEncode
  \/ \E high \in BOOLEAN, v \in CorruptBytes : CodecCorruptCrc(high, v)
  \/ CodecDecode
  \/ CodecValidate
  \/ CodecCrc

CodecSpec == CodecInit /\ [][CodecNext]_vars

(***************************************************************************)
(* A scripted UARTSimulator on its own, with scripts of several lengths.   *)
(***************************************************************************)
ShortScript ==
  << [action |-> "error", hasData |-> FALSE, data |-> << >>],
     [action |-> "receive", hasData |-> TRUE, data |-> ChunkShort] >>

Scripts == { << >>, ShortScript, Script }

ScriptedConfigs ==
  [mode : { "scripted" }, loop : BOOLEAN, errorRate : BOOLEAN, script : Scripts]

ScriptInit ==
  /\ \E c \in ScriptedConfigs :
       handles = [h \in H |-> IF h = 1 THEN NewUARTSimulator(c) ELSE NoHandle]
  /\ currentHandle = 0
  /\ frames = << >>
  /\ frameId = 0
  /\ published = << >>
  /\ opens = 0
  /\ results = [op \in Ops |-> [ok |-> 0, err |-> 0]]
  /\ ncalls = 0
  /\ hrNow = 1 * NsPerMs
  /\ wallNow \in WallOrigins
  /\ delivery = NoDeliveryYet
  /\ codec = NoCodec
  /\ messageBus = NewMessageBus

ScriptNext ==
  \/ \E cb \in UserCallbacks : Read(1, cb)
  \/ \E cb \in UserCallbacks : Unsub(1, cb)
  \/ \E drop \in BOOLEAN : ScriptFire(1, drop)
  \/ Close(1)

ScriptSpec == ScriptInit /\ [][ScriptNext]_vars

(***************************************************************************)
(* UARTSimulator in burst mode: startBurstMode, generateSampleFrame,       *)
(* calculateCrc16. burst.ticks counts the runs of sendBurst,               *)
(* burst.synthesized lists the frames generated in the last run.           *)
(***************************************************************************)
ADC_MIDDLE == 2048
ADC_AMPLITUDE == 500

(* 2048 + Math.floor(Math.sin(sequence / 10) * 500), tabulated for         *)
(* sequence = 0, 1, ...                                                    *)
AdcTable ==
  << 2048, 2097, 2147, 2195, 2242, 2287, 2330, 2370, 2406, 2439, 2468, 2493,
     2514, 2529, 2540, 2546, 2547, 2543, 2534, 2521, 2502, 2479, 2452, 2420,
     2385, 2347, 2305, 2261, 2215, 2167, 2118, 2068, 2018, 1969, 1920, 1872,
     1826, 1783, 1742, 1704, 1669, 1638, 1612, 1589, 1572, 1559, 1551, 1548,
     1549, 1556, 1568, 1585, 1606, 1631, 1661, 1695, 1732, 1772, 1815, 1861,
     1908, 1956, 2006, 2056 >>

(* one pass of the inner loop of calculateCrc16. crc is not masked inside  *)
(* the loops: the register is a 32-bit value, kept as its 16-bit halves    *)
Crc16BitwiseBit(reg) ==
  LET shifted == [hi |-> ((reg.hi * 2) + (reg.lo \div 32768)) % 65536,
                  lo |-> (reg.lo * 2) % 65536]
  IN  IF BitAnd(reg.lo, 32768) /= 0
        THEN [shifted EXCEPT !.lo = BitXor(@, 4129)]
        ELSE shifted

RECURSIVE Crc16BitwiseBits(_, _)
Crc16BitwiseBits(reg, i) ==
  IF i >= 8 THEN reg
  ELSE LET next == Crc16BitwiseBit(reg)
       IN  IF next.lo >= 0 THEN Crc16BitwiseBits(next, i + 1) ELSE reg

RECURSIVE Crc16BitwiseLoop(_, _, _)
Crc16BitwiseLoop(data, k, reg) ==
  IF k > Len(data) THEN reg
  ELSE LET next == Crc16BitwiseBits([reg EXCEPT !.lo = BitXor(@, Shl(data[k], 8))], 0)
       IN  IF next.lo >= 0 THEN Crc16BitwiseLoop(data, k + 1, next) ELSE reg

(* variant: the register starts at 0 *)
calculateCrc16ZeroInit(data) == Crc16BitwiseLoop(data, 1, [hi |-> 0, lo |-> 0]).lo

(* UARTSimulator.calculateCrc16: crc & 0xFFFF *)
calculateCrc16(data) == Crc16BitwiseLoop(data, 1, [hi |-> 0, lo |-> 65535]).lo

(* UARTSimulator.generateSampleFrame(sequence); adcPayload is payload and  *)
(* adcType is type                                                         *)
generateSampleFrame(sequence) ==
  LET adcValue == AdcTable[sequence + 1]
      adcPayload == << BitAnd(Shr(adcValue, 8), 255), BitAnd(adcValue, 255) >>
      adcType == 1
      length == 2
      crc == calculateCrc16(<< adcType, 0, length >> \o adcPayload)
  IN  << START_MARKER, adcType, 0, length >> \o adcPayload
        \o << BitAnd(Shr(crc, 8), 255), BitAnd(crc, 255), END_MARKER >>

(* Math.random() < errorRate for the frames of one burst *)
DropPatterns == { "none", "all", "odd" }

Drops(pattern, i) == pattern = "all" \/ (pattern = "odd" /\ i % 2 = 1)

(* the iterations lo .. hi of the loop of sendBurst, in order (the left    *)
(* half, then the right half); acc collects what the subscribers saw and   *)
(* the last frame delivered                                                *)
RECURSIVE SendBurstRange(_, _, _, _, _)
SendBurstRange(hr, lo, hi, pattern, acc) ==
  IF lo > hi THEN [h |-> hr, acc |-> acc]
  ELSE IF lo = hi
    THEN LET frame == generateSampleFrame(lo)
             r == simulateReceive([hr EXCEPT !.burst.synthesized = Append(@, frame)],
                                  frame, Drops(pattern, lo))
         IN  [h |-> r.h,
              acc |-> IF r.delivered
                        THEN [delivered |-> TRUE, chunk |-> r.chunk, before |-> r.before,
                              events |-> acc.events \o r.events]
                        ELSE acc]
  ELSE LET mid == (lo + hi) \div 2
           left == SendBurstRange(hr, lo, mid, pattern, acc)
       IN  IF left.h.burst.ticks >= 0
             THEN SendBurstRange(left.h, mid + 1, hi, pattern, left.acc)
             ELSE left

(* for (let i = 0; i < burstSize; i++) *)
SendBurstLoop(hr, i, pattern, acc) ==
  SendBurstRange(hr, i, hr.config.burstSize - 1, pattern, acc)

(* one run of sendBurst, the callback of the interval timer *)
BurstTick(h, pattern) ==
  LET hr == handles[h]
      r == SendBurstLoop([hr EXCEPT !.burst = [ticks |-> @.ticks + 1,
                                               synthesized |-> << >>]],
                         0, pattern,
                         [delivered |-> FALSE, chunk |-> << >>, before |-> << >>,
                          events |-> << >>])
  IN  /\ hr.kind = "UARTSimulator"
      /\ hr.config.mode = "burst"
      /\ hr.scriptTimer
      /\ hr.burst.ticks < MaxBurstTicks
      /\ pattern /= "none" => hr.config.errorRate
      /\ handles' = [handles EXCEPT ![h] = r.h]
      /\ delivery' = IF r.acc.delivered
                       THEN [h |-> h, chunk |-> r.acc.chunk, before |-> r.acc.before,
                             events |-> r.acc.events]
                       ELSE delivery
      /\ UNCHANGED << messageBus, codec, currentHandle, frames, frameId, published, opens,
                      results, ncalls, hrNow, wallNow >>

BurstSizes == { 0, 1, 3, 48 }
BurstIntervals == { 0, 100 }

BurstConfigs ==
  [mode : { "burst" }, loop : { FALSE }, errorRate : BOOLEAN, script : { << >> },
   burstSize : BurstSizes, burstInterval : BurstIntervals]

BurstInit ==
  /\ \E c \in BurstConfigs :
       handles = [h \in H |-> IF h = 1 THEN NewUARTSimulator(c) ELSE NoHandle]
  /\ currentHandle = 0
  /\ frames = << >>
  /\ frameId = 0
  /\ published = << >>
  /\ opens = 0
  /\ results = [op \in Ops |-> [ok |-> 0, err |-> 0]]
  /\ ncalls = 0
  /\ hrNow = 1 * NsPerMs
  /\ wallNow \in WallOrigins
  /\ delivery = NoDeliveryYet
  /\ codec = NoCodec
  /\ messageBus = NewMessageBus

BurstNext ==
  \/ Read(1, "a")
  \/ Unsub(1, "a")
  \/ \E pattern \in DropPatterns : BurstTick(1, pattern)
  \/ Write(1, ChunkAdc)
  \/ Close(1)

BurstSpec == BurstInit /\ [][BurstNext]_vars

(***************************************************************************)
(* CANSimulator: the interval timer of startSimulation and generateFrame.  *)
(* can.frameCounter is the field frameCounter; can.ticks counts the ticks, *)
(* can.tickIds lists the ids generated in the last tick, can.lastObd is    *)
(* the number of the last tick that generated 0x7E0 (0: none yet).         *)
(***************************************************************************)
CAN_RPM == 256
CAN_SPEED == 512
CAN_TEMP == 768
CAN_OBD == 2016
OBD_PERIOD == 10

(* 800 + Math.floor(Math.sin(frameCounter / 20) * 2000), tabulated for     *)
(* frameCounter = 0, 1, ...                                                *)
RpmTable ==
  << 800, 899, 999, 1098, 1197, 1294, 1391, 1485, 1578, 1669, 1758, 1845, 1929, 2010,
     2088, 2163, 2234, 2302, 2366, 2426, 2482, 2534, 2582, 2625, 2664, 2697, 2727, 2751,
     2770, 2785, 2794, 2799, 2799, 2793, 2783, 2767, 2747, 2722, 2692, 2657, 2618, 2574,
     2526, 2473, 2416, 2356, 2291, 2222, 2150, 2075, 1996, 1915, 1831, 1744, 1654, 1563,
     1469, 1374, 1278, 1180, 1082, 982, 883, 783 >>

(* 60 + Math.floor(Math.sin(frameCounter / 30) * 20), tabulated likewise *)
SpeedTable ==
  << 60, 60, 61, 61, 62, 63, 63, 64, 65, 65, 66, 67, 67, 68, 68, 69, 70, 70, 71, 71, 72,
     72, 73, 73, 74, 74, 75, 75, 76, 76, 76, 77, 77, 77, 78, 78, 78, 78, 79, 79, 79, 79,
     79, 79, 79, 79, 79, 79, 79, 79, 79, 79, 79, 79, 79, 79, 79, 78, 78, 78, 78, 77, 77,
     77 >>

(* Math.floor(Math.random() * 10) of the temperature frame *)
TempRandoms == { 0, 9 }

(* the data of generateFrame's switch *)
CanSimData(canId, frameCounter, rnd) ==
  CASE canId = CAN_RPM ->
         << BitAnd(Shr(RpmTable[frameCounter + 1], 8), 255),
            BitAnd(RpmTable[frameCounter + 1], 255), 0, 0, 0, 0, 0, 0 >>
    [] canId = CAN_SPEED -> << SpeedTable[frameCounter + 1], 0, 0, 0, 0, 0, 0, 0 >>
    [] canId = CAN_TEMP -> << 90 + rnd + 40, 0, 0, 0, 0, 0, 0, 0 >>
    [] canId = CAN_OBD -> << 2, 1, 12, 0, 0, 0, 0, 0 >>
    [] OTHER -> << 0, 0, 0, 0, 0, 0, 0, 0 >>

(* CANSimulator.generateFrame(canId) *)
generateFrame(hr, canId, rnd) ==
  LET msg == [id |-> canId, ext |-> canId > 2047, rtr |-> FALSE,
              data |-> CanSimData(canId, hr.can.frameCounter, rnd)]
      frame == CanFrame(msg)
      r == Deliver([hr EXCEPT !.stats = AddRx(@, Len(frame)), !.rxMeta = CanMeta(msg),
                              !.can.tickIds = Append(@, canId)], frame)
  IN  [r EXCEPT !.h.can.frameCounter = @ + 1]

(* one run of the interval callback of startSimulation *)
CanTick(h, rnd) ==
  LET hr == handles[h]
      r1 == generateFrame([hr EXCEPT !.can.tickIds = << >>, !.can.ticks = @ + 1],
                          CAN_RPM, rnd)
      r2 == generateFrame(r1.h, CAN_SPEED, rnd)
      r3 == generateFrame(r2.h, CAN_TEMP, rnd)
      r4 == IF r3.h.can.frameCounter % OBD_PERIOD = 0
              THEN LET r == generateFrame(r3.h, CAN_OBD, rnd)
                   IN  [r EXCEPT !.h.can.lastObd = hr.can.ticks + 1]
              ELSE r3
  IN  /\ hr.kind = "CANSimulator"
      /\ hr.can.timer
      /\ hr.can.ticks < MaxCanTicks
      /\ handles' = [handles EXCEPT ![h] = r4.h]
      /\ delivery' = [h |-> h, chunk |-> r4.chunk, before |-> r1.before,
                      events |-> r1.events \o r2.events \o r3.events
                                   \o (IF r4 = r3 THEN << >> ELSE r4.events)]
      /\ UNCHANGED << messageBus, codec, currentHandle, frames, frameId, published, opens,
                      results, ncalls, hrNow, wallNow >>

CanInit ==
  /\ \E c \in CanSimulatorConfigs :
       handles = [h \in H |-> IF h = 1 THEN NewCANSimulator(c) ELSE NoHandle]
  /\ currentHandle = 0
  /\ frames = << >>
  /\ frameId = 0
  /\ published = << >>
  /\ opens = 0
  /\ results = [op \in Ops |-> [ok |-> 0, err |-> 0]]
  /\ ncalls = 0
  /\ hrNow = 1 * NsPerMs
  /\ wallNow \in WallOrigins
  /\ delivery = NoDeliveryYet
  /\ codec = NoCodec
  /\ messageBus = NewMessageBus

CanNext ==
  \/ Read(1, "a")
  \/ Unsub(1, "a")
  \/ \E rnd \in TempRandoms : CanTick(1, rnd)
  \/ WriteSimulator(1, CanTxFrame)
  \/ BusTimeout(1)
  \/ CloseBus(1)

CanSpec == CanInit /\ [][CanNext]_vars

(***************************************************************************)
(* An SPISimulator on its own, with transactions of several lengths.       *)
(***************************************************************************)
SpiLongData == [k \in 1..(SPI_MEMORY_LENGTH + 1) |-> (k % 251) + 1]

SpiFrames ==
  { SpiWriteCmd, SpiReadCmd, << 2, 16, 5 >>, << 3, 16, 0 >>, << 2 >>, << 3 >>,
    << 2, 0 >> \o SpiLongData, << 3, 0 >> \o [k \in 1..(SPI_MEMORY_LENGTH + 1) |-> 0],
    << 5, 1, 2 >>, << >> }

(* SPIAdapter.createSimulator(config): new SPISimulator({}) *)
SPIAdapterCreateSimulator(config) == NewSPISimulator

SpiInit ==
  /\ \E config \in SimulatorConfigs :
       handles = [h \in H |-> IF h = 1 THEN SPIAdapterCreateSimulator(config) ELSE NoHandle]
  /\ currentHandle = 0
  /\ frames = << >>
  /\ frameId = 0
  /\ published = << >>
  /\ opens = 0
  /\ results = [op \in Ops |-> [ok |-> 0, err |-> 0]]
  /\ ncalls = 0
  /\ hrNow = 1 * NsPerMs
  /\ wallNow \in WallOrigins
  /\ delivery = NoDeliveryYet
  /\ codec = NoCodec
  /\ messageBus = NewMessageBus

SpiNext ==
  \/ Read(1, "a")
  \/ Unsub(1, "a")
  \/ \E frame \in SpiFrames : Write(1, frame)
  \/ SimTimeout(1, FALSE)

SpiSpec == SpiInit /\ [][SpiNext]_vars

(***************************************************************************)
(* MessageBus: on, the unsubscribe it returns, emit.                       *)
(***************************************************************************)
IsRegistered(mb, eventType, listener) ==
  IF eventType = Wildcard THEN InSeq(listener, mb.allListeners)
                          ELSE InSeq(listener, mb.listeners[eventType])

(* on(eventType, listener) *)
MessageBusOn(mb, eventType, listener) ==
  LET reg == [type |-> eventType, listener |-> listener]
      mb1 == [mb EXCEPT !.registered = IF IsRegistered(mb, eventType, listener)
                                         THEN @ ELSE Append(@, reg)]
  IN  IF eventType = Wildcard
        THEN [mb1 EXCEPT !.allListeners = SetAdd(@, listener)]
        ELSE [mb1 EXCEPT !.listeners[eventType] = SetAdd(@, listener)]

(* the function returned by on(eventType, listener) *)
MessageBusOff(mb, eventType, listener) ==
  LET reg == [type |-> eventType, listener |-> listener]
      mb1 == [mb EXCEPT !.registered = SelectSeq(@, LAMBDA r : r /= reg)]
  IN  IF eventType = Wildcard
        THEN [mb1 EXCEPT !.allListeners = SetDelete(@, listener)]
        ELSE [mb1 EXCEPT !.listeners[eventType] = SetDelete(@, listener)]

(* set.forEach(listener => { try { listener(event) } catch ... }): every   *)
(* entry is invoked; the exception of a listener is caught and logged      *)
NotifyAll(set, via) ==
  [i \in 1..Len(set) |->
     [listener |-> set[i], via |-> via, caught |-> set[i] = "thrower"]]

(* variant: the wildcard listeners are notified first *)
MessageBusEmitWildcardFirst(mb, type) ==
  [mb EXCEPT !.emitted =
     [type |-> type, registered |-> mb.registered,
      calls |-> NotifyAll(mb.allListeners, Wildcard)
                  \o NotifyAll(mb.listeners[type], type)]]

(* emit(event) *)
MessageBusEmit(mb, type) ==
  [mb EXCEPT !.emitted =
     [type |-> type, registered |-> mb.registered,
      calls |-> NotifyAll(mb.listeners[type], type)
                  \o NotifyAll(mb.allListeners, Wildcard)]]

MessageBusUnchanged ==
  UNCHANGED << handles, currentHandle, frames, frameId, published, opens,
               results, ncalls, hrNow, wallNow, delivery, codec >>

On(eventType, listener) ==
  /\ messageBus.ops < MaxBusOps
  /\ messageBus' = [MessageBusOn(messageBus, eventType, listener) EXCEPT !.ops = @ + 1]
  /\ MessageBusUnchanged

Off(eventType, listener) ==
  /\ messageBus.ops < MaxBusOps
  /\ IsRegistered(messageBus, eventType, listener)
  /\ messageBus' = [MessageBusOff(messageBus, eventType, listener) EXCEPT !.ops = @ + 1]
  /\ MessageBusUnchanged

EmitEvent(type) ==
  /\ messageBus.ops < MaxBusOps
  /\ messageBus' = [MessageBusEmit(messageBus, type) EXCEPT !.ops = @ + 1]
  /\ MessageBusUnchanged

MessageBusInit ==
  /\ messageBus = NewMessageBus
  /\ handles = [h \in H |-> NoHandle]
  /\ currentHandle = 0
  /\ frames = << >>
  /\ frameId = 0
  /\ published = << >>
  /\ opens = 0
  /\ results = [op \in Ops |-> [ok |-> 0, err |-> 0]]
  /\ ncalls = 0
  /\ hrNow = 0
  /\ wallNow = 0
  /\ delivery = NoDeliveryYet
  /\ codec = NoCodec

MessageBusNext ==
  \/ \E eventType \in BusEventTypes \cup { Wildcard }, listener \in BusListeners :
       On(eventType, listener)
  \/ \E eventType \in BusEventTypes \cup { Wildcard }, listener \in BusListeners :
       Off(eventType, listener)
  \/ \E type \in BusEventTypes : EmitEvent(type)

MessageBusSpec == MessageBusInit /\ [][MessageBusNext]_vars

(***************************************************************************)
(* Properties.                                                             *)
(***************************************************************************)
Last(s) == s[Len(s)]

TxCount(fs) == Cardinality({ i \in 1..Len(fs) : fs[i].direction = "tx" })

RECURSIVE SumMessagesTx(_)
SumMessagesTx(h) ==
  IF h = 0 THEN 0 ELSE handles[h].stats.messagesTx + SumMessagesTx(h - 1)

PendingSendWrites(h) ==
  Cardinality({ i \in 1..Len(handles[h].portOps) :
                  handles[h].portOps[i].op = "write" /\ handles[h].portOps[i].by = "send" })

RECURSIVE SumPendingSendWrites(_)
SumPendingSendWrites(h) ==
  IF h = 0 THEN 0 ELSE PendingSendWrites(h) + SumPendingSendWrites(h - 1)

(* the handle emitted a chunk to its subscribers in this step *)
Emitted(h) == handles'[h].stats.messagesRx = handles[h].stats.messagesRx + 1

(* C1: every frame of the session log has a distinct id, and the ids      *)
(* increase strictly in log order.                                         *)
C1_FrameIdsIncreasing ==
  /\ \A i \in 1..Len(frames) - 1 : frames[i].id < frames[i + 1].id
  /\ \A i, j \in 1..Len(frames) : i /= j => frames[i].id /= frames[j].id

C1_Witness ==
  /\ Len(frames) >= 2
  /\ \E i, j \in 1..Len(frames) : frames[i].direction = "rx" /\ frames[j].direction = "tx"

(* C2: consecutive frames of the session log have non-decreasing          *)
(* timestamps, for any mix of rx frames (stamped by the adapter) and tx    *)
(* frames (stamped from the wall clock).                                   *)
C2_TimestampsNonDecreasing ==
  \A i \in 1..Len(frames) - 1 : frames[i].timestamp <= frames[i + 1].timestamp

(* C3: at most one opened handle is live, that is opened, not closed and   *)
(* still feeding chunks into the session log.                              *)
Live(h) ==
  /\ handles[h].kind /= None
  /\ ~handles[h].closed
  /\ InSeq("pipe", handles[h].readCallbacks)

C3_AtMostOneLiveHandle == Cardinality({ h \in H : Live(h) }) <= 1

(* C4: for every chunk the connected handle delivers, exactly one frame is *)
(* appended to the session log and published once; it carries decoded     *)
(* exactly when decode of the chunk is not null and error exactly when     *)
(* validate of the chunk is not null, whatever the earlier chunks were.    *)
C4_ChunkIngested ==
  [][\A h \in H :
       (h = currentHandle /\ Emitted(h)) =>
         /\ frames' = Append(frames, Last(frames'))
         /\ published' = Append(published, Last(frames'))
         /\ Last(frames').direction = "rx"
         /\ Last(frames').raw = delivery'.chunk
         /\ (Last(frames').decoded /= Null) <=> (EFuseDecode(delivery'.chunk) /= Null)
         /\ (Last(frames').error /= None) <=> (EFuseValidate(delivery'.chunk) /= None)]_vars

C4_Witness ==
  /\ Len(frames) = 2
  /\ frames[1].direction = "rx" /\ frames[1].error /= None /\ frames[1].decoded = Null
  /\ frames[2].direction = "rx" /\ frames[2].decoded /= Null
  /\ published = frames

C6_FailedSendMarksNoFrame ==
  [][/\ (results'["send"].err > results["send"].err) =>
          (frames' = frames /\ published' = published /\ frameId' = frameId)
     /\ \A h \in H :
          (/\ handles[h].portOps /= << >>
           /\ Head(handles[h].portOps).by = "send"
           /\ handles'[h].stats.errors > handles[h].stats.errors) =>
            results'["send"].err = results["send"].err + 1
     /\ (currentHandle = 0 /\ ncalls' > ncalls /\ results'["send"] /= results["send"]) =>
          results'["send"].err = results["send"].err + 1]_vars

C6_Witness ==
  /\ results["send"].err > 0
  /\ \E h \in H : handles[h].stats.errors > 0
  /\ Len(frames) > 0

(* C7: once close has completed on a handle, every later write, read or    *)
(* setOptions call fails and changes no counter and no subscriber set.     *)
C7_ClosedHandleRejectsCalls ==
  [][\A h \in H :
       handles[h].closed =>
         /\ handles'[h].stats.bytesTx = handles[h].stats.bytesTx
         /\ handles'[h].stats.messagesTx = handles[h].stats.messagesTx
         /\ handles'[h].readCallbacks = handles[h].readCallbacks
         /\ results'["write"].ok = results["write"].ok
         /\ results'["setOptions"].ok = results["setOptions"].ok]_vars

(* C8: close on a handle that is already closed succeeds and leaves the    *)
(* handle as the first close left it.                                      *)
C8_CloseIdempotent ==
  [][\A h \in H :
       /\ (/\ handles[h].portOps /= << >>
           /\ Head(handles[h].portOps).op = "close"
           /\ Head(handles[h].portOps).port = "closed"
           /\ handles'[h].portOps = Tail(handles[h].portOps)) =>
            results'["close"].err = results["close"].err
       /\ (handles[h].closed /\ results'["close"].ok > results["close"].ok) =>
            /\ handles'[h].closed
            /\ handles'[h].readCallbacks = << >>
            /\ ~handles'[h].scriptTimer]_vars

(* C9: after close on a simulator handle no internal timer fires any more: *)
(* no scripted event is performed, no echo or response is processed, no    *)
(* chunk is delivered and no rx or error counter changes.                  *)
C9_NoTimerAfterClose ==
  [][\A h \in H :
       (handles[h].closed /\ IsSimulator(handles[h])) =>
         /\ handles'[h].stats.bytesRx = handles[h].stats.bytesRx
         /\ handles'[h].stats.messagesRx = handles[h].stats.messagesRx
         /\ handles'[h].stats.errors = handles[h].stats.errors
         /\ handles'[h].index = handles[h].index
         /\ Len(handles'[h].timeouts) >= Len(handles[h].timeouts)]_vars

(* C10: once the unsubscribe token of a subscriber has been invoked, also  *)
(* from inside another subscriber during a delivery, that subscriber is    *)
(* not invoked again; the subscribers that stay registered are each        *)
(* invoked once per chunk.                                                 *)
C10_UnsubscribedNeverInvoked ==
  [][\A h \in H :
       Emitted(h) =>
         /\ \A cb \in handles[h].unsubbed : ~Called(delivery'.events, cb)
         /\ \A i, j \in 1..Len(delivery'.events) :
              (i < j /\ delivery'.events[i].ev = "unsub") =>
                delivery'.events[j] /= [ev |-> "call", cb |-> delivery'.events[i].cb]
         /\ \A cb \in Callbacks :
              (InSeq(cb, handles[h].readCallbacks) /\ InSeq(cb, handles'[h].readCallbacks)) =>
                Cardinality({ i \in 1..Len(delivery'.events) :
                                delivery'.events[i] = [ev |-> "call", cb |-> cb] }) = 1]_vars

C10_Witness ==
  /\ InSeq("a", delivery.before)
  /\ \E i \in 1..Len(delivery.events) : delivery.events[i] = [ev |-> "unsub", cb |-> "a"]
  /\ ~Called(delivery.events, "a")
  /\ Called(delivery.events, "unsubA")

(* the total length of a frame whose length field declares n payload bytes *)
DeclaredLength(raw) == At(raw, 2) * 256 + At(raw, 3)

(* C16, as claimed: decode returns none exactly when the input has fewer   *)
(* than 7 bytes, or does not start with 0xAA, or does not end with 0xBB,   *)
(* or its total length differs from 6 + the declared length.               *)
C16_DecodeNoneIffSixPlusLength ==
  (codec.decoder = "efuse" /\ codec.ranDecode) =>
    ((codec.decoded = Null) <=>
       \/ Len(codec.raw) < 7
       \/ codec.raw[1] /= 170
       \/ codec.raw[Len(codec.raw)] /= 187
       \/ Len(codec.raw) /= 6 + DeclaredLength(codec.raw))

(* C16, amended: decode returns none exactly when the input has fewer than *)
(* 7 bytes, or does not start with 0xAA, or does not end with 0xBB, or its *)
(* total length differs from 7 + the declared length; otherwise it returns *)
(* a frame.                                                                *)
C16_DecodeNoneIffSevenPlusLength ==
  (codec.decoder = "efuse" /\ codec.ranDecode) =>
    ((codec.decoded = Null) <=>
       \/ Len(codec.raw) < 7
       \/ codec.raw[1] /= 170
       \/ codec.raw[Len(codec.raw)] /= 187
       \/ Len(codec.raw) /= 7 + DeclaredLength(codec.raw))

C16_Witness ==
  /\ codec.decoder = "efuse" /\ codec.given = "raw" /\ codec.ranDecode
  /\ codec.decoded = Null
  /\ Len(codec.raw) >= 7 /\ codec.raw[1] = 170 /\ codec.raw[Len(codec.raw)] = 187
  /\ Len(codec.raw) = 6 + DeclaredLength(codec.raw)

(* the five checks of validate, on the bytes alone *)
TooShort(raw) == Len(raw) < 7
BadStart(raw) == raw[1] /= 170
BadEnd(raw) == raw[Len(raw)] /= 187
BadLength(raw) == Len(raw) /= 7 + DeclaredLength(raw)
BadCrc(raw) ==
  raw[Len(raw) - 2] * 256 + raw[Len(raw) - 1]
    /= crc16CcittFalse(SubSeq(raw, 2, Len(raw) - 3))

(* C17: validate returns the error of the first failing check in the order *)
(* FRAME_TOO_SHORT, INVALID_START_MARKER, INVALID_END_MARKER,              *)
(* LENGTH_MISMATCH, CRC_MISMATCH, each with severity error, and none       *)
(* exactly when all five checks pass.                                      *)
C17_ValidateFirstFailingCheck ==
  (codec.decoder = "efuse" /\ codec.ranValidate) =>
    LET raw == codec.raw
        e == codec.error
    IN  /\ (e = "FRAME_TOO_SHORT") <=> TooShort(raw)
        /\ (e = "INVALID_START_MARKER") <=> (~TooShort(raw) /\ BadStart(raw))
        /\ (e = "INVALID_END_MARKER") <=>
             (~TooShort(raw) /\ ~BadStart(raw) /\ BadEnd(raw))
        /\ (e = "LENGTH_MISMATCH") <=>
             (~TooShort(raw) /\ ~BadStart(raw) /\ ~BadEnd(raw) /\ BadLength(raw))
        /\ (e = "CRC_MISMATCH") <=>
             (/\ ~TooShort(raw) /\ ~BadStart(raw) /\ ~BadEnd(raw)
              /\ ~BadLength(raw) /\ BadCrc(raw))
        /\ (e = None) <=>
             (/\ ~TooShort(raw) /\ ~BadStart(raw) /\ ~BadEnd(raw)
              /\ ~BadLength(raw) /\ ~BadCrc(raw))
        /\ (e /= None) => (Severity(e) = "error")

(* both markers wrong, and the length and the CRC too: the start marker is *)
(* the one reported                                                        *)
C17_Witness ==
  /\ codec.decoder = "efuse" /\ codec.ranValidate
  /\ Len(codec.raw) >= 7
  /\ BadStart(codec.raw) /\ BadEnd(codec.raw) /\ BadLength(codec.raw)
  /\ codec.error = "INVALID_START_MARKER"

(* C18: for every type in 0..255 and every payload, decode of the encoded  *)
(* frame returns a frame with the type and the payload given to encode and *)
(* a valid checksum, and validate of the encoded frame returns none.       *)
C18_EncodeDecodeRoundTrip ==
  (codec.decoder = "efuse" /\ codec.encoded /\ codec.raw = codec.original) =>
    /\ codec.ranDecode =>
         /\ codec.decoded /= Null
         /\ codec.decoded.type = codec.type
         /\ codec.decoded.payload = codec.payload
         /\ codec.decoded.checksum.valid
    /\ codec.ranValidate => codec.error = None

(* a payload long enough to use both bytes of the length field *)
C18_Witness ==
  /\ codec.decoder = "efuse" /\ codec.encoded /\ codec.raw = codec.original
  /\ codec.ranDecode /\ codec.ranValidate
  /\ codec.type = 255
  /\ Len(codec.payload) > 255
  /\ codec.decoded /= Null
  /\ codec.decoded.length = Len(codec.payload)

(* C19: when one byte of the CRC field of a well-formed frame is changed,  *)
(* validate returns CRC_MISMATCH and decode still returns a frame, with    *)
(* the type, length and payload of the well-formed frame and with          *)
(* checksum.valid false.                                                   *)
C19_WrongCrcStillDecodes ==
  (codec.decoder = "efuse" /\ codec.encoded /\ codec.raw /= codec.original) =>
    /\ codec.ranValidate => codec.error = "CRC_MISMATCH"
    /\ codec.ranDecode =>
         /\ codec.decoded /= Null
         /\ codec.decoded.type = EFuseDecode(codec.original).type
         /\ codec.decoded.length = EFuseDecode(codec.original).length
         /\ codec.decoded.payload = EFuseDecode(codec.original).payload
         /\ ~codec.decoded.checksum.valid

C19_Witness ==
  /\ codec.decoder = "efuse" /\ codec.encoded /\ codec.raw /= codec.original
  /\ codec.ranDecode /\ codec.ranValidate
  /\ codec.decoded /= Null
  /\ codec.payload /= << >>
  /\ codec.raw[Len(codec.raw) - 2] /= codec.original[Len(codec.raw) - 2]

(* C20: for every decoder and every byte sequence, when decode returns     *)
(* none, validate of the same bytes returns an error.                      *)
C20_NullDecodeHasError ==
  (codec.decoder /= None /\ codec.ranDecode /\ codec.ranValidate) =>
    ((codec.decoded = Null) => (codec.error /= None))

RECURSIVE SumLen(_)
SumLen(q) == IF q = << >> THEN 0 ELSE Len(Head(q)) + SumLen(Tail(q))

(* every frame written was echoed to the subscribers or is still to be    *)
(* echoed, and nothing else was                                            *)
EchoesAccounted(hr) ==
  /\ hr.stats.messagesRx + Len(hr.timeouts) = hr.stats.messagesTx
  /\ hr.stats.bytesRx + SumLen(hr.timeouts) = hr.stats.bytesTx

(* the echo timer of handle h fires in this step and delivers the bytes    *)
(* written, once to every subscriber that stays registered                 *)
EchoDelivered(h) ==
  (handles'[h].timeouts = Tail(handles[h].timeouts)) =>
    /\ delivery'.h = h
    /\ delivery'.chunk = Head(handles[h].timeouts)
    /\ delivery'.before = handles[h].readCallbacks
    /\ \A cb \in Callbacks :
         (InSeq(cb, handles[h].readCallbacks) /\ InSeq(cb, handles'[h].readCallbacks)) =>
           Cardinality({ i \in 1..Len(delivery'.events) :
                           delivery'.events[i] = [ev |-> "call", cb |-> cb] }) = 1

Loopback(hr) == hr.kind = "UARTSimulator" /\ hr.config.mode = "loopback"

(* C13, as claimed: on a UART simulator in loopback mode every write(b) is *)
(* followed by exactly one rx callback per registered subscriber, with     *)
(* bytes equal to b: no echo is lost, duplicated or altered.               *)
C13_LoopbackEchoesEveryWrite ==
  /\ [](\A h \in H : Loopback(handles[h]) => EchoesAccounted(handles[h]))
  /\ [][\A h \in H :
          (Loopback(handles[h]) /\ handles[h].timeouts /= << >>) => EchoDelivered(h)]_vars

(* C13, amended: the same, on a loopback simulator with errorRate unset or *)
(* 0 (with an errorRate the echo of a write may be discarded).             *)
C13_LoopbackEchoesWithoutErrorRate ==
  /\ [](\A h \in H :
          (Loopback(handles[h]) /\ ~handles[h].config.errorRate) =>
            EchoesAccounted(handles[h]))
  /\ [][\A h \in H :
          (/\ Loopback(handles[h]) /\ ~handles[h].config.errorRate
           /\ handles[h].timeouts /= << >>) => EchoDelivered(h)]_vars

C13_Witness ==
  \E h \in H :
    /\ Loopback(handles[h]) /\ ~handles[h].config.errorRate
    /\ handles[h].stats.messagesTx = 2
    /\ handles[h].stats.messagesRx = 2
    /\ delivery.h = h
    /\ delivery.chunk = ChunkAdc
    /\ Called(delivery.events, "a")

(* the handle handed a chunk to its subscribers in this step *)
Handed(h) == handles'[h].emitted.count = handles[h].emitted.count + 1

(* the subscribers called in a delivery, in call order *)
CallsOf(events) == SelectSeq(events, LAMBDA e : e.ev = "call")

Position(q, x) == CHOOSE i \in 1..Len(q) : q[i] = x

(* C11: for every chunk a handle hands to its subscribers, every           *)
(* subscriber that is registered (and stays so during the delivery) is     *)
(* invoked exactly once, and the subscribers are invoked in the order in   *)
(* which they were registered.                                             *)
C11_EachSubscriberOnceInOrder ==
  [][\A h \in H :
       Handed(h) =>
         LET calls == CallsOf(delivery'.events)
         IN  /\ \A cb \in Callbacks :
                  (/\ InSeq(cb, handles[h].readCallbacks)
                   /\ InSeq(cb, handles'[h].readCallbacks)) =>
                    Cardinality({ i \in 1..Len(calls) : calls[i].cb = cb }) = 1
             /\ \A i, j \in 1..Len(calls) :
                  i < j => Position(delivery'.before, calls[i].cb)
                             < Position(delivery'.before, calls[j].cb)]_vars

(* C12: on every handle and every delivery path, the exception of a        *)
(* subscriber is caught, and the subscribers registered after it are still *)
(* invoked for the same chunk.                                             *)
C12_ExceptionDoesNotBlockOthers ==
  [][\A h \in H :
       (Handed(h) /\ Called(delivery'.events, "thrower")) =>
         /\ \A i \in 1..Len(delivery'.events) : delivery'.events[i].ev /= "uncaught"
         /\ \A cb \in Callbacks :
              (/\ InSeq(cb, delivery'.before)
               /\ Position(delivery'.before, cb) > Position(delivery'.before, "thrower")
               /\ InSeq(cb, handles'[h].readCallbacks)) =>
                Called(delivery'.events, cb)]_vars

(* C14: bytesRx is the sum of the lengths of the chunks the handle has     *)
(* handed to its subscribers since open, and messagesRx their number; a    *)
(* CAN message dropped by the filter is in neither.                        *)
C14_RxCountersMatchEmitted ==
  \A h \in H :
    handles[h].kind /= None =>
      /\ handles[h].stats.bytesRx = handles[h].emitted.bytes
      /\ handles[h].stats.messagesRx = handles[h].emitted.count

(* C15: a write call that succeeds adds the frame to bytesTx and           *)
(* messagesTx and leaves errors; a write call that fails, for any reason,  *)
(* adds one to errors and leaves bytesTx and messagesTx.                   *)
C15_WriteCountsSuccessOrError ==
  [][\A h \in H :
       handles[h].kind /= None =>
         /\ (results'["write"].ok > results["write"].ok) =>
              /\ handles'[h].stats.messagesTx = handles[h].stats.messagesTx + 1
              /\ handles'[h].stats.bytesTx >= handles[h].stats.bytesTx
              /\ handles'[h].stats.errors = handles[h].stats.errors
         /\ (results'["write"].err > results["write"].err) =>
              /\ handles'[h].stats.errors = handles[h].stats.errors + 1
              /\ handles'[h].stats.bytesTx = handles[h].stats.bytesTx
              /\ handles'[h].stats.messagesTx = handles[h].stats.messagesTx]_vars

(* C21: for every byte sequence b, empty, with zeros in front, inside or  *)
(* at the end, or with 254 and more non-zero bytes in a row,               *)
(* cobsDecode(cobsEncode(b)) returns b.                                    *)
C21_CobsRoundTrip ==
  (codec.decoder = "cobs" /\ codec.encoded /\ codec.ranDecode) =>
    /\ codec.decoded /= Null
    /\ codec.decoded.data = codec.payload

(* a full block of 254 non-zero bytes followed by more data and a zero at  *)
(* the end                                                                 *)
C21_Witness ==
  /\ codec.decoder = "cobs" /\ codec.encoded /\ codec.ranDecode
  /\ Len(codec.payload) > CobsFullRun
  /\ codec.raw[1] = COBS_MAX_CODE
  /\ codec.payload[Len(codec.payload)] = 0
  /\ codec.decoded /= Null
  /\ Len(codec.decoded.data) = Len(codec.payload)

(* the number of END bytes of a sequence *)
RECURSIVE CountEnd(_)
CountEnd(q) ==
  IF q = << >> THEN 0
  ELSE (IF Head(q) = SLIP_END THEN 1 ELSE 0) + CountEnd(Tail(q))

(* C22: for every byte sequence b, slipDecode(slipEncode(b)) returns b,    *)
(* and slipEncode(b) holds the byte END exactly once, as its last byte.    *)
C22_SlipRoundTrip ==
  (codec.decoder = "slip" /\ codec.encoded) =>
    /\ CountEnd(codec.raw) = 1
    /\ codec.raw[Len(codec.raw)] = SLIP_END
    /\ codec.ranDecode =>
         /\ codec.decoded /= Null
         /\ codec.decoded.data = codec.payload

(* data with END and ESC in it *)
C22_Witness ==
  /\ codec.decoder = "slip" /\ codec.encoded /\ codec.ranDecode
  /\ \E k \in 1..Len(codec.payload) : codec.payload[k] = SLIP_END
  /\ \E k \in 1..Len(codec.payload) : codec.payload[k] = SLIP_ESC
  /\ codec.decoded /= Null
  /\ codec.decoded.data = codec.payload

(* C28: SLIP decode returns none whenever an ESC byte reached before any   *)
(* END is followed by a byte other than ESC_END and ESC_ESC, the byte END  *)
(* included.                                                               *)
C28_BadEscapeIsNone ==
  (codec.decoder = "slip" /\ codec.given = "raw" /\ codec.ranDecode) =>
    ((\E k \in 1..(Len(codec.raw) - 1) :
        /\ \A j \in 1..k : codec.raw[j] /= SLIP_END
        /\ codec.raw[k] = SLIP_ESC
        /\ codec.raw[k + 1] \notin { SLIP_ESC_END, SLIP_ESC_ESC })
      => codec.decoded = Null)
(* bit reversal of an n-bit value *)
RECURSIVE Reflect(_, _)
Reflect(v, n) == IF n = 0 THEN 0 ELSE (v % 2) * (2 ^ (n - 1)) + Reflect(v \div 2, n - 1)

(* CRC-16 with polynomial 0x1021, initial value 0xFFFF, no reflection and  *)
(* no final XOR, one bit at a time                                         *)
RECURSIVE RefCrc16Bits(_, _)
RefCrc16Bits(reg, j) ==
  IF j = 0 THEN reg
  ELSE LET next == IF reg >= 32768 THEN BitXor((reg * 2) % 65536, 4129)
                                    ELSE (reg * 2) % 65536
       IN  IF next >= 0 THEN RefCrc16Bits(next, j - 1) ELSE reg

RECURSIVE RefCrc16(_, _)
RefCrc16(data, reg) ==
  IF data = << >> THEN reg
  ELSE LET next == RefCrc16Bits(BitXor(reg, Head(data) * 256), 8)
       IN  IF next >= 0 THEN RefCrc16(Tail(data), next) ELSE reg

(* CRC-32 of IEEE 802.3: polynomial 0x04C11DB7, initial value 0xFFFFFFFF,  *)
(* input bytes and output reflected, final XOR 0xFFFFFFFF, one bit at a    *)
(* time on the two 16-bit halves of the register                           *)
RECURSIVE RefCrc32Bits(_, _)
RefCrc32Bits(reg, j) ==
  IF j = 0 THEN reg
  ELSE LET shifted == [hi |-> ((reg.hi * 2) % 65536) + (reg.lo \div 32768),
                       lo |-> (reg.lo * 2) % 65536]
           next == IF reg.hi >= 32768
                     THEN [hi |-> BitXor(shifted.hi, 1217),
                           lo |-> BitXor(shifted.lo, 7607)]
                     ELSE shifted
       IN  IF next.lo >= 0 THEN RefCrc32Bits(next, j - 1) ELSE reg

RECURSIVE RefCrc32Loop(_, _)
RefCrc32Loop(data, reg) ==
  IF data = << >> THEN reg
  ELSE LET next == RefCrc32Bits([hi |-> BitXor(reg.hi, Reflect(Head(data), 8) * 256),
                                 lo |-> reg.lo], 8)
       IN  IF next.lo >= 0 THEN RefCrc32Loop(Tail(data), next) ELSE reg

RefCrc32(data) ==
  LET reg == RefCrc32Loop(data, [hi |-> 65535, lo |-> 65535])
  IN  [hi |-> BitXor(Reflect(reg.lo, 16), 65535), lo |-> BitXor(Reflect(reg.hi, 16), 65535)]

(* C27: crc16CcittFalse of the nine ASCII bytes "123456789" is 0x29B1 and  *)
(* crc32 of the same bytes is 0xCBF43926; on every input crc16CcittFalse   *)
(* is the CRC with polynomial 0x1021, initial value 0xFFFF, no reflection  *)
(* and no final XOR, and crc32 is the reflected IEEE 802.3 CRC with        *)
(* initial value and final XOR 0xFFFFFFFF.                                 *)
C27_CrcTestVectors ==
  (codec.decoder = "crc" /\ codec.ranDecode) =>
    /\ (codec.raw = Digits) =>
         /\ codec.decoded.crc16 = 10673
         /\ codec.decoded.crc32 = [hi |-> 52212, lo |-> 14630]
    /\ codec.decoded.crc16 = RefCrc16(codec.raw, 65535)
    /\ codec.decoded.crc32 = RefCrc32(codec.raw)

C27_Witness ==
  /\ codec.decoder = "crc" /\ codec.ranDecode
  /\ codec.raw = Digits
  /\ codec.decoded.crc16 = 10673
  /\ codec.decoded.crc32.hi = 52212
(* the CAN handle hands a chunk to its subscribers in this step *)
HandsChunk == handles'[1].emitted.count = handles[1].emitted.count + 1

SomeFilterPasses(filters, msg) ==
  \E i \in 1..Len(filters) :
    /\ BitAnd(msg.id, filters[i].mask) = BitAnd(filters[i].id, filters[i].mask)
    /\ filters[i].extended = "unset" \/ (filters[i].extended = "true") = msg.ext

(* C23: on a CAN handle, for every filter set F, the empty one included,   *)
(* a received message is handed to the subscribers if and only if some     *)
(* filter f of F has (msg.id & f.mask) = (f.id & f.mask) and f.extended    *)
(* unset or equal to msg.ext.                                              *)
C23_EmittedIffSomeFilterPasses ==
  [][\A msg \in CanMessages :
       OnMessage(1, msg) => (HandsChunk <=> SomeFilterPasses(handles[1].filters, msg))]_vars

(* C24: CAN handle write rejects every frame shorter than 5 bytes and      *)
(* every frame whose dlc byte (offset 4) is greater than 8, and sends      *)
(* nothing on the channel for it.                                          *)
C24_WriteRejectsShortAndLongDlc ==
  [][\A frame \in BusTxFrames("CANHandle"), sendOk \in BOOLEAN :
       (WriteCANHandle(1, frame, sendOk) /\ (Len(frame) < 5 \/ At(frame, 4) > 8)) =>
         /\ results'["write"].err = results["write"].err + 1
         /\ handles'[1].sent = handles[1].sent]_vars

(* C25: for every CAN message that passes the filter, the chunk handed to  *)
(* the subscribers is the id as 4 big-endian bytes, one byte with the      *)
(* length of the data, then the data, and transportSpecific is {canId: id, *)
(* canExt: ext, canRtr: rtr, canDlc: length of the data}; the message      *)
(* {id=0x7E0, data=[02 01 0C 00 00 00 00 00]} gives the chunk              *)
(* 00 00 07 E0 08 02 01 0C 00 00 00 00 00.                                 *)
C25_RxChunkLayout ==
  [][\A msg \in CanMessages :
       (OnMessage(1, msg) /\ HandsChunk) =>
         LET chunk == delivery'.chunk
         IN  /\ Len(chunk) = 5 + Len(msg.data)
             /\ \A k \in 1..4 : chunk[k] \in 0..255
             /\ chunk[1] * 16777216 + chunk[2] * 65536 + chunk[3] * 256 + chunk[4]
                  = msg.id
             /\ chunk[5] = Len(msg.data)
             /\ SubSeq(chunk, 6, Len(chunk)) = msg.data
             /\ handles'[1].rxMeta = [canId |-> msg.id, canExt |-> msg.ext,
                                      canRtr |-> msg.rtr, canDlc |-> Len(msg.data)]
             /\ (msg.id = 2016) =>
                  chunk = << 0, 0, 7, 224, 8, 2, 1, 12, 0, 0, 0, 0, 0 >>]_vars

C25_Witness ==
  /\ handles[1].kind = "CANHandle"
  /\ delivery.h = 1
  /\ delivery.chunk = << 0, 0, 7, 224, 8, 2, 1, 12, 0, 0, 0, 0, 0 >>
  /\ handles[1].rxMeta /= Null
  /\ handles[1].rxMeta.canId = 2016
  /\ Called(delivery.events, "a")
(* the listeners of the registrations of regs made for eventType, oldest  *)
(* first, as calls through via                                             *)
ExpectedCalls(regs, eventType) ==
  LET mine == SelectSeq(regs, LAMBDA r : r.type = eventType)
  IN  [i \in 1..Len(mine) |-> mine[i].listener]

(* C26: for every event emitted on the message bus, the listeners          *)
(* registered for its type are invoked first, in registration order, then  *)
(* the wildcard listeners, in registration order, each once; a listener    *)
(* that throws stops no later listener.                                    *)
C26_TypeListenersThenWildcard ==
  (messageBus.emitted /= Null) =>
    LET e == messageBus.emitted
        typed == ExpectedCalls(e.registered, e.type)
        wild == ExpectedCalls(e.registered, Wildcard)
    IN  /\ Len(e.calls) = Len(typed) + Len(wild)
        /\ \A i \in 1..Len(typed) :
             e.calls[i].listener = typed[i] /\ e.calls[i].via = e.type
        /\ \A i \in 1..Len(wild) :
             /\ e.calls[Len(typed) + i].listener = wild[i]
             /\ e.calls[Len(typed) + i].via = Wildcard

(* a throwing listener of the type, registered before another one of the   *)
(* type, and a wildcard listener: all three are invoked                    *)
C26_Witness ==
  /\ messageBus.emitted /= Null
  /\ Len(messageBus.emitted.calls) = 3
  /\ messageBus.emitted.calls[1].listener = "thrower"
  /\ messageBus.emitted.calls[1].caught
  /\ messageBus.emitted.calls[2].via = messageBus.emitted.type
  /\ messageBus.emitted.calls[3].via = Wildcard
(* the events of the script before the pending one have been performed;   *)
(* one of them is a disconnect                                             *)
DisconnectPerformed(hr) ==
  /\ hr.kind = "UARTSimulator" /\ hr.config.mode = "scripted"
  /\ \E k \in 1..(hr.index - 1) : hr.config.script[k].action = "disconnect"

(* C29: in a scripted simulator, once a disconnect event of the script has *)
(* been performed, no later event of the script is performed and no chunk  *)
(* is delivered to the subscribers.                                        *)
C29_NothingAfterDisconnect ==
  [][DisconnectPerformed(handles[1]) =>
       /\ \A drop \in BOOLEAN : ~ScriptFire(1, drop)
       /\ handles'[1].emitted = handles[1].emitted]_vars

(* C30: a scripted simulator starts for every script, the empty one        *)
(* included; one event is pending at a time; when the timer of event i     *)
(* fires, event i + 1 is pending next; after the last event nothing is     *)
(* pending when loop is unset, and the first event is pending again when   *)
(* loop is set.                                                            *)
C30_ScriptInOrderThenStopOrRestart ==
  /\ [](~handles[1].threw)
  /\ [](handles[1].kind = "UARTSimulator" /\ handles[1].config.script = << >>
          => ~handles[1].scriptTimer)
  /\ [][\A drop \in BOOLEAN :
          (ScriptFire(1, drop) /\ ~handles'[1].closed) =>
            LET hr == handles[1]
                n == Len(hr.config.script)
            IN  IF hr.index < n
                  THEN handles'[1].scriptTimer /\ handles'[1].index = hr.index + 1
                ELSE IF hr.config.loop
                  THEN handles'[1].scriptTimer /\ handles'[1].index = 1
                ELSE ~handles'[1].scriptTimer]_vars
(* from position p on, enc is a sequence of blocks: a code byte k in      *)
(* 1..0xFF followed by exactly k - 1 non-zero data bytes                   *)
RECURSIVE BlocksFrom(_, _)
BlocksFrom(enc, p) ==
  IF p = Len(enc) + 1 THEN TRUE
  ELSE IF p > Len(enc) + 1 THEN FALSE
  ELSE /\ enc[p] \in 1..255
       /\ p + enc[p] - 1 <= Len(enc)
       /\ \A k \in (p + 1)..(p + enc[p] - 1) : enc[k] /= 0
       /\ BlocksFrom(enc, p + enc[p])

(* C40: for every byte sequence b, cobsEncode(b) holds no zero byte, and   *)
(* every code byte in it is one plus the number of data bytes that follow  *)
(* it in its block, at most 0xFF.                                          *)
C40_CobsEncodeBlocks ==
  (codec.decoder = "cobs" /\ codec.encoded /\ codec.raw = codec.original) =>
    /\ \A k \in 1..Len(codec.raw) : codec.raw[k] \in 1..255
    /\ BlocksFrom(codec.raw, 1)
    /\ Len(codec.raw) >= Len(codec.payload) + 1

(* 254 non-zero bytes: one full block with code 0xFF, then an empty block  *)
C40_Witness ==
  /\ codec.decoder = "cobs" /\ codec.encoded
  /\ Len(codec.payload) = CobsFullRun
  /\ Len(codec.raw) = CobsFullRun + 2
  /\ codec.raw[1] = COBS_MAX_CODE
  /\ codec.raw[Len(codec.raw)] = 1

(* C38: for every EFuse frame of type 0x03 with a payload of 4 bytes or    *)
(* more, config_value is the unsigned 32-bit big-endian value of the first *)
(* four payload bytes, a number in 0..2^32-1 (stated on its two 16-bit     *)
(* halves), also when the first payload byte is 0x80 or more.              *)
C38_ConfigValueUnsigned ==
  (/\ codec.decoder = "efuse" /\ codec.ranDecode /\ codec.decoded /= Null
   /\ codec.decoded.type = 3 /\ Len(codec.decoded.payload) >= 4) =>
    LET p == codec.decoded.payload
        v == codec.decoded.extra[1].value
    IN  /\ codec.decoded.extra[1].name = "config_value"
        /\ v >= 0
        /\ v \div 65536 = p[1] * 256 + p[2]
        /\ v % 65536 = p[3] * 256 + p[4]
(* the SPI transaction processed in this step, and its answer *)
SpiTransaction == Head(handles[1].timeouts)
SpiAnswer == delivery'.chunk

(* the parts of C34 that do not look back: a write answers [0x00], a read  *)
(* answer has the length of its request and starts with two zero bytes,    *)
(* any other command is echoed unchanged                                   *)
SpiAnswerShape ==
  LET tx == SpiTransaction
  IN  IF Len(tx) = 0 THEN SpiAnswer = << >>
      ELSE IF tx[1] = 2 THEN SpiAnswer = << 0 >>
      ELSE IF tx[1] = 3
        THEN /\ Len(SpiAnswer) = Len(tx)
             /\ \A k \in 1..Len(tx) : k <= 2 => SpiAnswer[k] = 0
      ELSE SpiAnswer = tx

(* the read processed in this step follows a write of the same address and *)
(* the same total length with no other write in between                    *)
SpiReadsBack ==
  /\ Len(SpiTransaction) >= 2 /\ SpiTransaction[1] = 3
  /\ handles[1].lastWrite /= Null
  /\ Len(handles[1].lastWrite.frame) = Len(SpiTransaction)
  /\ handles[1].lastWrite.frame[2] = SpiTransaction[2]

C35_I2cWriteApplied ==
  [][\A frame \in BusTxFrames("I2CSimulator") :
       LET written == handles[1].lastWrite.frame
       IN  ( /\ handles[1].kind = "I2CSimulator"
             /\ WriteSimulator(1, frame)
             /\ handles[1].lastWrite /= Null
             /\ Len(frame) >= 2 /\ Len(written) > 2
             /\ BitAnd(frame[1], 1) = 1
             /\ Shr(frame[1], 1) = Shr(written[1], 1)
             /\ I2CDevice(Shr(frame[1], 1)) /= Null
             /\ frame[2] = Len(written) - 2 )
           => /\ handles'[1].timeouts /= << >>
              /\ handles'[1].timeouts[Len(handles'[1].timeouts)]
                   = SubSeq(written, 3, Len(written))]_vars
(* C36: a TCP handle in listener mode adopts the first accepted connection *)
(* only: the socket used for write is the first connection, and the chunks *)
(* fed to the subscribers come from it.                                    *)
C36_FirstConnectionOnly ==
  [][(handles[1].kind = "TCPHandle" /\ handles[1].server) =>
       /\ handles'[1].connections.socket <= 1
       /\ \A chunk \in RxChunks, c \in 2..MaxConnections : ~SocketData(1, chunk, c)]_vars
(* C37: the handle that createSimulator returns for mode loopback delivers *)
(* every written frame back with identical bytes. Stated for the handle of *)
(* SPIAdapter.createSimulator, which is the same for every config: the     *)
(* answer to a written frame is that frame.                                *)
C37_SimulatorLoopbackEchoes ==
  [][(handles[1].kind = "SPISimulator" /\ SimTimeout(1, FALSE)) =>
       /\ delivery'.h = 1
       /\ delivery'.chunk = Head(handles[1].timeouts)]_vars
(* C32: every tick of the CAN simulator generates the ids 0x100, 0x200 and *)
(* 0x300 in that order, and 0x7E0 after them on every tenth tick and on no *)
(* other: two ticks that generate 0x7E0 are a multiple of ten ticks apart. *)
C32_ObdEveryTenthTick ==
  [][\A rnd \in TempRandoms :
       (handles[1].kind = "CANSimulator" /\ CanTick(1, rnd)) =>
         LET ids == handles'[1].can.tickIds
         IN  /\ SubSeq(ids, 1, 3) = << CAN_RPM, CAN_SPEED, CAN_TEMP >>
             /\ ids \in { << CAN_RPM, CAN_SPEED, CAN_TEMP >>,
                          << CAN_RPM, CAN_SPEED, CAN_TEMP, CAN_OBD >> }
             /\ (Len(ids) = 4 /\ handles[1].can.lastObd > 0) =>
                  (handles'[1].can.ticks - handles[1].can.lastObd) % OBD_PERIOD = 0]_vars
(* the frame is a valid EFuse ADC frame *)
ValidAdcFrame(frame) ==
  LET decoded == EFuseDecode(frame)
  IN  /\ EFuseValidate(frame) = None
      /\ calculateCrc16(Slice(frame, 1, 6)) = crc16CcittFalse(Slice(frame, 1, 6))
      /\ decoded /= Null
      /\ decoded.type = 1
      /\ decoded.length = 2
      /\ \E k \in 1..Len(decoded.extra) :
           /\ decoded.extra[k].name = "adc_raw"
           /\ decoded.extra[k].value >= ADC_MIDDLE - ADC_AMPLITUDE
           /\ decoded.extra[k].value <= ADC_MIDDLE + ADC_AMPLITUDE

C31_ChunkDeliveredOrDiscarded ==
  [][handles[1].kind = "CANSimulator" =>
       LET delivered == handles'[1].emitted.count - handles[1].emitted.count
           bytes == handles'[1].emitted.bytes - handles[1].emitted.bytes
           errors == handles'[1].stats.errors - handles[1].stats.errors
       IN  /\ delivered = handles'[1].stats.messagesRx - handles[1].stats.messagesRx
           /\ bytes = handles'[1].stats.bytesRx - handles[1].stats.bytesRx
           /\ errors > 0 => delivered = 0
           /\ ~handles[1].config.errorRate => errors = 0]_vars
(* C39: once disconnect has completed (no current handle) and until the    *)
(* next connect adopts a handle, no frame is appended to the session log   *)
(* and nothing is published.                                               *)
C39_QuietAfterDisconnect ==
  [][(currentHandle = 0 /\ currentHandle' = 0) =>
       (frames' = frames /\ published' = published)]_vars
====
